---- MODULE Spec2Model ----
(***************************************************************************)
(* Study-Planner client: the persisted store (src/lib/storage.ts), the     *)
(* remote-call wrappers (src/lib/types.ts, second half) and the three page *)
(* components that drive them: onboarding, check-in and dashboard.         *)
(*                                                                         *)
(* JavaScript runs each event handler, and each continuation after an      *)
(* await, to completion.  A handler that performs several store writes in  *)
(* a row is modelled as a chain of steps linked by the variable run: while *)
(* run is not idle only the next step of that chain is enabled, so the     *)
(* order of the writes is visible in the states and nothing interleaves.   *)
(***************************************************************************)
EXTENDS Integers, Sequences, FiniteSets, TLC

VARIABLES
    hasWindow,    \* typeof window !== 'undefined' (storage.ts:22,28,33)
    ls,           \* localStorage: key -> Null or <<text>>
    today,        \* the calendar date new Date() yields
    page,         \* the route whose page component is mounted
    dash,         \* DashboardPage's useState cells (dashboard/page.tsx:15-20)
    chk,          \* CheckinPage's loading/error cells (checkin/page.tsx:25-26)
    onb,          \* OnboardingPage's loading/error cells (onboarding/page.tsx:18-19)
    adjustReqs,   \* adjustPlanForBurnout calls in flight, in issue order
    burnoutReqs,  \* checkBurnout calls in flight, in issue order
    planReqs,     \* generatePlan calls in flight, in issue order
    run,          \* the handler continuation being executed: <<>> or <<frame>>
    ev            \* the step that produced the current state

vars == <<hasWindow, ls, today, page, dash, chk, onb,
          adjustReqs, burnoutReqs, planReqs, run, ev>>

-----------------------------------------------------------------------------
(* Bounds of the model *)

\* Total number of remote calls in flight at once.
MaxInFlight == 2

-----------------------------------------------------------------------------
(* Program constants *)

MoodCap == 7
MinHistory == 3
DefaultHours == 5
TopRecommendations == 3

-----------------------------------------------------------------------------
(* Optional values: null / undefined is <<>>, a present value v is <<v>> *)

Null == <<>>
Some(v) == <<v>>

-----------------------------------------------------------------------------
(* Value domains *)

\* Calendar dates ("YYYY-MM-DD" strings, totally ordered) as 1, 2, ...
Dates == {1, 2}

\* DailyTask.  task_type, priority and notes are carried along by every
\* operation and read by none; they are left out of the records.
Task(s, t, h) == [subject |-> s, topic |-> t, duration_hours |-> h]
T1 == Task("OS", "paging", 2)
T2 == Task("DB", "joins", 1)

\* StudyPlan (one day)
Day(d, ts, h, r) == [date |-> d, tasks |-> ts, total_hours |-> h, rest_recommended |-> r]

\* WeeklyPlan
Plan(w, ds, b) == [week_number |-> w, days |-> ds, burnout_risk |-> b]

\* The WeeklyPlans the plan service answers with.  Dates are unique inside a
\* plan (the StudyPlan key); a plan may miss a date and may have no day at all.
GeneratedPlans ==
    { Plan(1, <<Day(1, <<T1, T2>>, 3, FALSE), Day(2, <<T2>>, 1, TRUE)>>, "Low"),
      Plan(2, <<Day(2, <<T1>>, 2, FALSE)>>, "High"),
      Plan(3, <<>>, "Low") }

\* The AdjustedPlans the adjustment service answers with.  new_hours is not
\* the sum of the durations of modified_tasks.
AdjustedPlans ==
    { [original_hours |-> 3, new_hours |-> 2, removed_tasks |-> <<"OS-paging">>,
       modified_tasks |-> mt, rest_days_added |-> rd, rationale |-> "rest"]
      : mt \in {<<>>, <<T2>>}, rd \in {0, 2} }

\* The BurnoutAssessments the scoring service answers with.
Assessments ==
    { [risk_level |-> "Low", risk_score |-> 10, signals |-> <<>>,
       recommendations |-> <<"r1">>, should_adjust_plan |-> FALSE],
      [risk_level |-> "High", risk_score |-> 80, signals |-> <<"s1">>,
       recommendations |-> <<"r1", "r2", "r3", "r4">>, should_adjust_plan |-> TRUE] }

\* A subject as typed into the onboarding form.  exam_date "" is 0.
Subject(n, e) == [name |-> n, priority |-> "Medium", difficulty |-> "Medium",
                  is_weak |-> FALSE, exam_date |-> e, hours_needed |-> 8]

\* What the onboarding form can hold at submit: one subject, filled in, with a
\* blank name, with a whitespace-only name, or without an exam date; or two
\* subjects, the second with a blank name.
SubjectForms ==
    { <<Subject("OS", 2)>>, <<Subject("", 2)>>, <<Subject(" ", 2)>>, <<Subject("OS", 0)>>,
      <<Subject("OS", 2), Subject("", 2)>> }

\* The forms that pass the validation
FilledForms == { <<Subject("OS", 2)>> }

\* The values of the available-hours slider used here.
HourForms == {4}

\* What the check-in form can hold at submit (mood, planned and actual hours,
\* focus level).
MoodForm(m, p, a, f) == [mood |-> m, planned_hours |-> p, actual_hours |-> a, focus_level |-> f]
CheckinForms == { MoodForm("Burned out", 5, 1, "Low") }

-----------------------------------------------------------------------------
(* localStorage and the generic helpers (storage.ts:9-35) *)

K_SUBJECTS == <<"study_planner_subjects", 0>>
K_WEEKLY_PLAN == <<"study_planner_weekly_plan", 0>>
K_MOOD_HISTORY == <<"study_planner_mood_history", 0>>
K_AVAILABLE_HOURS == <<"study_planner_available_hours", 0>>
K_FIXED_COMMITMENTS == <<"study_planner_fixed_commitments", 0>>
K_LAST_ASSESSMENT == <<"study_planner_last_assessment", 0>>
K_COMPLETED_TASKS == <<"study_planner_completed_tasks", 0>>
K_ONBOARDING_COMPLETE == <<"study_planner_onboarding_complete", 0>>

\* Object.values(KEYS), in declaration order
KEYS == <<K_SUBJECTS, K_WEEKLY_PLAN, K_MOOD_HISTORY, K_AVAILABLE_HOURS,
          K_FIXED_COMMITMENTS, K_LAST_ASSESSMENT, K_COMPLETED_TASKS,
          K_ONBOARDING_COMPLETE>>

\* `${KEYS.COMPLETED_TASKS}_${date}`
CompletedKey(d) == <<"study_planner_completed_tasks", d>>

AllKeys == {KEYS[i] : i \in 1..Len(KEYS)} \cup {CompletedKey(d) : d \in Dates}

EmptyStorage == [k \in AllKeys |-> Null]

\* JSON.stringify / JSON.parse.  Every value the program stores is built from
\* finite integers, booleans, strings, arrays and plain objects; on those a
\* JSON text determines the value and the value its text.  The text of v is
\* the pair <<"json", v>>: what localStorage holds is a string, never the
\* value, and only JSON.parse gives the value back.
JSONStringify(v) == <<"json", v>>
JSONParse(text) == text[2]

\* getItem on store s: null when there is no window or no item
getItem(s, key) ==
    IF ~hasWindow THEN Null
    ELSE IF s[key] = Null THEN Null
    ELSE Some(JSONParse(s[key][1]))

\* setItem on store s: the store afterwards
setItem(s, key, value) ==
    IF ~hasWindow THEN s
    ELSE [s EXCEPT ![key] = Some(JSONStringify(value))]

\* removeItem on store s: the store afterwards
removeItem(s, key) ==
    IF ~hasWindow THEN s
    ELSE [s EXCEPT ![key] = Null]

-----------------------------------------------------------------------------
(* Typed accessors (storage.ts:37-117).  Each takes the store it reads or   *)
(* writes and, for a write, yields the store afterwards.                    *)

\* subjectStorage.get: getItem(...) || []
subjectStorage_get(s) ==
    LET v == getItem(s, K_SUBJECTS) IN IF v = Null THEN <<>> ELSE v[1]
subjectStorage_set(s, subjects) == setItem(s, K_SUBJECTS, subjects)

\* Mutant of planStorage_set: saving a plan removes the lists of completed tasks
planStorage_set_DropsLedger(s, plan) ==
    [k \in AllKeys |->
        IF k[1] = K_COMPLETED_TASKS[1] /\ k # K_COMPLETED_TASKS
        THEN Null ELSE setItem(s, K_WEEKLY_PLAN, plan)[k]]

\* planStorage.get: WeeklyPlan | null
planStorage_get(s) == getItem(s, K_WEEKLY_PLAN)
planStorage_set(s, plan) == setItem(s, K_WEEKLY_PLAN, plan)

\* moodStorage.get: getItem(...) || []
moodStorage_get(s) ==
    LET v == getItem(s, K_MOOD_HISTORY) IN IF v = Null THEN <<>> ELSE v[1]
moodStorage_set(s, entries) == setItem(s, K_MOOD_HISTORY, entries)

\* Mutant of moodStorage_add: the newest entry is dropped (pop for shift)
moodStorage_add_DropsNewest(s, entry) ==
    LET pushed == Append(moodStorage_get(s), entry)
        entries == IF Len(pushed) > MoodCap THEN SubSeq(pushed, 1, MoodCap) ELSE pushed
    IN  moodStorage_set(s, entries)

\* Mutant of moodStorage_add: an entry of the same date is replaced
moodStorage_add_ReplacesSameDate(s, entry) ==
    LET kept == SelectSeq(moodStorage_get(s), LAMBDA e : e.date # entry.date)
        pushed == Append(kept, entry)
        entries == IF Len(pushed) > MoodCap THEN Tail(pushed) ELSE pushed
    IN  moodStorage_set(s, entries)

\* moodStorage.add: push, then shift when more than 7 are held
moodStorage_add(s, entry) ==
    LET pushed == Append(moodStorage_get(s), entry)
        entries == IF Len(pushed) > MoodCap THEN Tail(pushed) ELSE pushed
    IN  moodStorage_set(s, entries)

\* hoursStorage.get: getItem(...) || 5  (0 is falsy)
hoursStorage_get(s) ==
    LET v == getItem(s, K_AVAILABLE_HOURS)
    IN  IF v = Null \/ v[1] = 0 THEN DefaultHours ELSE v[1]
hoursStorage_set(s, hours) == setItem(s, K_AVAILABLE_HOURS, hours)

\* commitmentsStorage.get: getItem(...) || {}.  The object of weekday -> list
\* of [start, end] is the set of its <<weekday, list>> entries.
commitmentsStorage_get(s) ==
    LET v == getItem(s, K_FIXED_COMMITMENTS) IN IF v = Null THEN {} ELSE v[1]
commitmentsStorage_set(s, commitments) == setItem(s, K_FIXED_COMMITMENTS, commitments)

\* assessmentStorage
assessmentStorage_get(s) == getItem(s, K_LAST_ASSESSMENT)
assessmentStorage_set(s, assessment) == setItem(s, K_LAST_ASSESSMENT, assessment)
assessmentStorage_clear(s) == removeItem(s, K_LAST_ASSESSMENT)

\* Array.prototype.includes / filter(id => id !== taskId)
Includes(seq, x) == \E i \in 1..Len(seq) : seq[i] = x
Without(seq, x) == SelectSeq(seq, LAMBDA y : y # x)

\* Mutant of completedTasksStorage_add: the id is pushed without the includes test
completedTasksStorage_add_Unguarded(s, date, taskId) ==
    setItem(s, CompletedKey(date), Append(
        LET v == getItem(s, CompletedKey(date)) IN IF v = Null THEN <<>> ELSE v[1], taskId))

\* Mutant of completedTasksStorage_set: every date is written under the bare prefix
completedTasksStorage_set_OneKey(s, date, tasks) == setItem(s, K_COMPLETED_TASKS, tasks)

\* completedTasksStorage
completedTasksStorage_get(s, date) ==
    LET v == getItem(s, CompletedKey(date)) IN IF v = Null THEN <<>> ELSE v[1]
completedTasksStorage_set(s, date, tasks) == setItem(s, CompletedKey(date), tasks)
completedTasksStorage_add(s, date, taskId) ==
    LET tasks == completedTasksStorage_get(s, date)
    IN  IF ~Includes(tasks, taskId)
        THEN completedTasksStorage_set(s, date, Append(tasks, taskId))
        ELSE s
completedTasksStorage_remove(s, date, taskId) ==
    completedTasksStorage_set(s, date, Without(completedTasksStorage_get(s, date), taskId))

\* onboardingStorage.isComplete: getItem(...) || false
onboardingStorage_isComplete(s) ==
    LET v == getItem(s, K_ONBOARDING_COMPLETE) IN IF v = Null THEN FALSE ELSE v[1]
onboardingStorage_setComplete(s) == setItem(s, K_ONBOARDING_COMPLETE, TRUE)

\* clearAllData: Object.values(KEYS).forEach(removeItem); n keys removed so far
RECURSIVE RemoveKeys(_, _)
RemoveKeys(s, n) == IF n = 0 THEN s ELSE removeItem(RemoveKeys(s, n - 1), KEYS[n])
\* Mutant of clearAllData: the last key, the onboarding flag, is left in place
clearAllData_KeepsFlag(s) == RemoveKeys(s, Len(KEYS) - 1)

clearAllData(s) == RemoveKeys(s, Len(KEYS))

-----------------------------------------------------------------------------
(* The plan merge of handleAdjustPlan (dashboard/page.tsx:83-98) *)

RECURSIVE SumDurations(_)
SumDurations(tasks) ==
    IF tasks = <<>> THEN 0 ELSE tasks[1].duration_hours + SumDurations(Tail(tasks))

\* Mutant of UpdatedDays: the date test is lost and every day is rewritten
UpdatedDays_EveryDay(plan, todaysPlan, adjusted) ==
    [i \in 1..Len(plan.days) |->
        [plan.days[i] EXCEPT !.tasks = adjusted.modified_tasks,
                             !.total_hours = adjusted.new_hours,
                             !.rest_recommended = (adjusted.rest_days_added > 0)]]

\* Mutant of UpdatedDays: total_hours is summed from the new tasks
UpdatedDays_SummedHours(plan, todaysPlan, adjusted) ==
    [i \in 1..Len(plan.days) |->
        IF plan.days[i].date = todaysPlan.date
        THEN [plan.days[i] EXCEPT !.tasks = adjusted.modified_tasks,
                                  !.total_hours = SumDurations(adjusted.modified_tasks),
                                  !.rest_recommended = (adjusted.rest_days_added > 0)]
        ELSE plan.days[i]]

\* Mutant of UpdatedDays: with no day of the date, the first day is rewritten
UpdatedDays_FallsBackToFirst(plan, todaysPlan, adjusted) ==
    [i \in 1..Len(plan.days) |->
        IF \/ plan.days[i].date = todaysPlan.date
           \/ (i = 1 /\ \A j \in 1..Len(plan.days) : plan.days[j].date # todaysPlan.date)
        THEN [plan.days[i] EXCEPT !.tasks = adjusted.modified_tasks,
                                  !.total_hours = adjusted.new_hours,
                                  !.rest_recommended = (adjusted.rest_days_added > 0)]
        ELSE plan.days[i]]

\* plan.days.map(day => day.date === todaysPlan.date ? {...day, ...} : day)
UpdatedDays(plan, todaysPlan, adjusted) ==
    [i \in 1..Len(plan.days) |->
        IF plan.days[i].date = todaysPlan.date
        THEN [plan.days[i] EXCEPT !.tasks = adjusted.modified_tasks,
                                  !.total_hours = adjusted.new_hours,
                                  !.rest_recommended = (adjusted.rest_days_added > 0)]
        ELSE plan.days[i]]

\* { ...plan, days: updatedDays }
UpdatedPlan(plan, todaysPlan, adjusted) ==
    [plan EXCEPT !.days = UpdatedDays(plan, todaysPlan, adjusted)]

\* days.find(d => d.date === date): the first match, or undefined
FindDay(days, date) ==
    LET hits == {i \in 1..Len(days) : days[i].date = date}
    IN  IF hits = {} THEN Null
        ELSE Some(days[CHOOSE i \in hits : \A j \in hits : i <= j])

-----------------------------------------------------------------------------
(* Page components *)

DashUnmounted ==
    [loading |-> TRUE, plan |-> Null, todaysPlan |-> Null, burnoutAssessment |-> Null,
     adjusting |-> FALSE, completedTasks |-> <<>>]

FormIdle == [loading |-> FALSE, error |-> ""]

\* DashboardPage's mount effect (dashboard/page.tsx:22-51) on store s: the
\* route and the dashboard cells once the effect has run.
MountDashboard(s) ==
    IF ~onboardingStorage_isComplete(s)
    THEN [page |-> "home", dash |-> DashUnmounted]
    ELSE IF planStorage_get(s) = Null
    THEN [page |-> "onboarding", dash |-> DashUnmounted]
    ELSE LET savedPlan == planStorage_get(s)[1]
             found == FindDay(savedPlan.days, today)
             todayPlan == IF found # Null THEN found
                          ELSE IF Len(savedPlan.days) > 0 THEN Some(savedPlan.days[1])
                          ELSE Null
         IN  [page |-> "dashboard",
              dash |-> [loading |-> FALSE,
                        plan |-> Some(savedPlan),
                        todaysPlan |-> todayPlan,
                        burnoutAssessment |-> assessmentStorage_get(s),
                        adjusting |-> FALSE,
                        completedTasks |-> completedTasksStorage_get(s, today)]]

\* router.push('/dashboard') on store s: a push to the current route mounts
\* nothing anew.
PushDashboard(s) ==
    IF page = "dashboard" THEN [page |-> page, dash |-> dash] ELSE MountDashboard(s)

\* LandingPage's mount effect (onboarding/page.tsx:290-296, the landing page)
MountLanding(s) ==
    IF onboardingStorage_isComplete(s) THEN MountDashboard(s)
    ELSE [page |-> "home", dash |-> DashUnmounted]

\* A component that unmounts leaves its pending continuations running; their
\* setState calls then change nothing.
Orphan(reqs) == [i \in 1..Len(reqs) |-> [reqs[i] EXCEPT !.live = FALSE]]

RemoveAt(seq, i) == SubSeq(seq, 1, i - 1) \o SubSeq(seq, i + 1, Len(seq))

InFlight == Len(adjustReqs) + Len(burnoutReqs) + Len(planReqs)

Idle == run = <<>>

Frame(h, at, req, resp) == [h |-> h, at |-> at, req |-> req, resp |-> resp]

Ev(op, alert) == [op |-> op, alert |-> alert]

-----------------------------------------------------------------------------
(* Initial state: a fresh browser profile on the landing page *)

Init ==
    /\ hasWindow = TRUE
    /\ ls = EmptyStorage
    /\ today = 1
    /\ page = "home"
    /\ dash = DashUnmounted
    /\ chk = FormIdle
    /\ onb = FormIdle
    /\ adjustReqs = <<>>
    /\ burnoutReqs = <<>>
    /\ planReqs = <<>>
    /\ run = <<>>
    /\ ev = Ev("init", Null)

\* The route changes to m.page with the dashboard cells m.dash; with remount
\* every page component is a new instance and the old one's calls are orphaned.
Route(m, remount, aReqs, pReqs) ==
    /\ page' = m.page
    /\ dash' = m.dash
    /\ chk' = IF remount THEN FormIdle ELSE chk
    /\ onb' = IF remount THEN FormIdle ELSE onb
    /\ adjustReqs' = IF remount THEN Orphan(aReqs) ELSE aReqs
    /\ planReqs' = IF remount THEN Orphan(pReqs) ELSE pReqs

\* router.push('/dashboard') from a continuation, on store s
RoutePushDashboard(s, aReqs, pReqs) ==
    Route(PushDashboard(s), page # "dashboard", aReqs, pReqs)

-----------------------------------------------------------------------------
(* Environment: the day changes; the user moves between the pages *)

Tick ==
    /\ Idle
    /\ today + 1 \in Dates
    /\ today' = today + 1
    /\ ev' = Ev("tick", Null)
    /\ UNCHANGED <<hasWindow, ls, page, dash, chk, onb, adjustReqs, burnoutReqs, planReqs, run>>

Pages == {"home", "onboarding", "dashboard", "checkin"}

\* Client-side navigation to another route (the buttons at dashboard/page.tsx:152,194,
\* checkin/page.tsx:94, the landing page's button, the browser's back and forward).
Navigate(to) ==
    /\ Idle
    /\ to # page
    /\ Route(CASE to = "dashboard" -> MountDashboard(ls)
               [] to = "home" -> MountLanding(ls)
               [] OTHER -> [page |-> to, dash |-> DashUnmounted],
             TRUE, adjustReqs, planReqs)
    /\ ev' = Ev("navigate", Null)
    /\ UNCHANGED <<hasWindow, ls, today, burnoutReqs, run>>

-----------------------------------------------------------------------------
(* Onboarding (onboarding/page.tsx:64-102, types.ts:98-121) *)

\* String.prototype.trim on the names of the model
Trim(name) == IF name = " " THEN "" ELSE name

\* Mutant of InvalidSubjects: the name is tested without trim
InvalidSubjects_Untrimmed(subjects) ==
    \E i \in 1..Len(subjects) : subjects[i].name = "" \/ subjects[i].exam_date = 0

\* subjects.find(s => !s.name.trim() || !s.exam_date) is not undefined
InvalidSubjects(subjects) ==
    \E i \in 1..Len(subjects) : Trim(subjects[i].name) = "" \/ subjects[i].exam_date = 0

\* handleSubmit up to the await of generatePlan.  The call in flight also
\* remembers, in wrote, whether the submit changed the store before calling
\* (a history field: no step reads it).
OnboardSubmit(subjects, availableHours) ==
    /\ Idle
    /\ page = "onboarding"
    /\ ~onb.loading
    /\ InFlight < MaxInFlight
    /\ IF InvalidSubjects(subjects)
       THEN /\ onb' = [onb EXCEPT !.error = "Please fill in all subject names and exam dates"]
            /\ ev' = Ev("onboard_invalid", Null)
            /\ UNCHANGED <<ls, planReqs>>
       ELSE /\ onb' = [loading |-> TRUE, error |-> ""]
            /\ ls' = hoursStorage_set(subjectStorage_set(ls, subjects), availableHours)
            /\ planReqs' = Append(planReqs,
                   [subjects |-> subjects, availableHours |-> availableHours,
                    startDate |-> today, live |-> TRUE, wrote |-> (ls' # ls)])
            /\ ev' = Ev("onboard_submitted", Null)
    /\ UNCHANGED <<hasWindow, today, page, dash, chk, adjustReqs, burnoutReqs, run>>

\* Mutant of PlanReturn: generatePlan returns the plan without saving it
PlanReturn_NoSave(i, plan) ==
    /\ Idle
    /\ i \in 1..Len(planReqs)
    /\ planReqs' = RemoveAt(planReqs, i)
    /\ run' = <<Frame("onboard", "stored", planReqs[i], plan)>>
    /\ ev' = Ev("plan_stored", Null)
    /\ UNCHANGED <<hasWindow, ls, today, page, dash, chk, onb, adjustReqs, burnoutReqs>>

\* generatePlan after its await: the response is ok, the plan is saved
PlanReturn(i, plan) ==
    /\ Idle
    /\ i \in 1..Len(planReqs)
    /\ ls' = planStorage_set(ls, plan)
    /\ planReqs' = RemoveAt(planReqs, i)
    /\ run' = <<Frame("onboard", "stored", planReqs[i], plan)>>
    /\ ev' = Ev("plan_stored", Null)
    /\ UNCHANGED <<hasWindow, today, page, dash, chk, onb, adjustReqs, burnoutReqs>>

\* handleSubmit after the await: the flag, then the push to the dashboard
OnboardComplete ==
    /\ ~Idle
    /\ run[1].h = "onboard"
    /\ ls' = onboardingStorage_setComplete(ls)
    /\ RoutePushDashboard(ls', adjustReqs, planReqs)
    /\ run' = <<>>
    /\ ev' = Ev("onboard_done", Null)
    /\ UNCHANGED <<hasWindow, today, burnoutReqs>>

\* generatePlan throws (handleResponse, types.ts:87-91): handleSubmit's catch
PlanFail(i) ==
    /\ Idle
    /\ i \in 1..Len(planReqs)
    /\ planReqs' = RemoveAt(planReqs, i)
    /\ onb' = IF planReqs[i].live
              THEN [loading |-> FALSE, error |-> "Failed to generate plan. Please try again."]
              ELSE onb
    /\ ev' = Ev("plan_failed", Null)
    /\ UNCHANGED <<hasWindow, ls, today, page, dash, chk, adjustReqs, burnoutReqs, run>>

-----------------------------------------------------------------------------
(* Check-in (checkin/page.tsx:33-83, types.ts:124-134) *)

\* MOOD_OPTIONS.find(m => m.value === selectedMood).score
MoodScore(mood) ==
    CASE mood = "Energized" -> 4
      [] mood = "Okay" -> 3
      [] mood = "Tired" -> 2
      [] mood = "Burned out" -> 1

MoodEntry(form) ==
    [date |-> today, mood |-> form.mood, mood_score |-> MoodScore(form.mood),
     planned_hours |-> form.planned_hours, actual_hours |-> form.actual_hours,
     focus_level |-> form.focus_level]

\* handleSubmit: the entry is built and saved
CheckinSubmit(form) ==
    /\ Idle
    /\ page = "checkin"
    /\ ~chk.loading
    /\ InFlight < MaxInFlight
    /\ chk' = [loading |-> TRUE, error |-> ""]
    /\ ls' = moodStorage_add(ls, MoodEntry(form))
    /\ run' = <<Frame("checkin", "added", MoodEntry(form), Null)>>
    /\ ev' = Ev("checkin_added", Null)
    /\ UNCHANGED <<hasWindow, today, page, dash, onb, adjustReqs, burnoutReqs, planReqs>>

\* Mutant of CheckinPolicy: checkBurnout is called whatever the history holds
CheckinPolicy_AlwaysCalls ==
    /\ ~Idle
    /\ run[1].h = "checkin"
    /\ burnoutReqs' = Append(burnoutReqs, [history |-> moodStorage_get(ls)])
    /\ ev' = Ev("checkin_called", Null)
    /\ run' = <<>>
    /\ UNCHANGED <<hasWindow, ls, today, page, dash, chk, onb, adjustReqs, planReqs>>

\* handleSubmit: the history is read back; with at least 3 entries checkBurnout
\* is called, otherwise the handler goes straight to the dashboard
CheckinPolicy ==
    /\ ~Idle
    /\ run[1].h = "checkin"
    /\ LET history == moodStorage_get(ls)
       IN  IF Len(history) >= MinHistory
           THEN /\ burnoutReqs' = Append(burnoutReqs, [history |-> history])
                /\ ev' = Ev("checkin_called", Null)
                /\ UNCHANGED <<page, dash, chk, onb, adjustReqs, planReqs>>
           ELSE /\ RoutePushDashboard(ls, adjustReqs, planReqs)
                /\ ev' = Ev("checkin_skipped", Null)
                /\ UNCHANGED burnoutReqs
    /\ run' = <<>>
    /\ UNCHANGED <<hasWindow, ls, today>>

\* assessment.recommendations.slice(0, 3)
TopOf(recommendations) ==
    SubSeq(recommendations, 1,
           IF Len(recommendations) < TopRecommendations
           THEN Len(recommendations) ELSE TopRecommendations)

\* Mutant of BurnoutReturn: only a High assessment is alerted
BurnoutReturn_HighOnly(i, assessment) ==
    /\ Idle
    /\ i \in 1..Len(burnoutReqs)
    /\ ls' = assessmentStorage_set(ls, assessment)
    /\ burnoutReqs' = RemoveAt(burnoutReqs, i)
    /\ RoutePushDashboard(ls', adjustReqs, planReqs)
    /\ ev' = Ev("burnout_ok",
                IF assessment.risk_level = "High"
                THEN Some([risk_level |-> assessment.risk_level,
                           recommendations |-> TopOf(assessment.recommendations)])
                ELSE Null)
    /\ UNCHANGED <<hasWindow, today, run>>

\* checkBurnout resolves: the assessment is saved, alerted when High or
\* Critical, and the handler goes to the dashboard
BurnoutReturn(i, assessment) ==
    /\ Idle
    /\ i \in 1..Len(burnoutReqs)
    /\ ls' = assessmentStorage_set(ls, assessment)
    /\ burnoutReqs' = RemoveAt(burnoutReqs, i)
    /\ RoutePushDashboard(ls', adjustReqs, planReqs)
    /\ ev' = Ev("burnout_ok",
                IF assessment.risk_level \in {"High", "Critical"}
                THEN Some([risk_level |-> assessment.risk_level,
                           recommendations |-> TopOf(assessment.recommendations)])
                ELSE Null)
    /\ UNCHANGED <<hasWindow, today, run>>

\* Mutant of BurnoutFail: the failure path takes the newest entry back out
BurnoutFail_RollsBack(i) ==
    /\ Idle
    /\ i \in 1..Len(burnoutReqs)
    /\ burnoutReqs' = RemoveAt(burnoutReqs, i)
    /\ ls' = moodStorage_set(ls, SubSeq(moodStorage_get(ls), 1, Len(moodStorage_get(ls)) - 1))
    /\ RoutePushDashboard(ls', adjustReqs, planReqs)
    /\ ev' = Ev("burnout_failed", Null)
    /\ UNCHANGED <<hasWindow, today, run>>

\* checkBurnout throws: the inner catch logs, the handler goes to the dashboard
BurnoutFail(i) ==
    /\ Idle
    /\ i \in 1..Len(burnoutReqs)
    /\ burnoutReqs' = RemoveAt(burnoutReqs, i)
    /\ RoutePushDashboard(ls, adjustReqs, planReqs)
    /\ ev' = Ev("burnout_failed", Null)
    /\ UNCHANGED <<hasWindow, ls, today, run>>

-----------------------------------------------------------------------------
(* Dashboard (dashboard/page.tsx:53-134, types.ts:155-171) *)

\* The dashboard shows its content: the effect has run and both plan and
\* todaysPlan are set (dashboard/page.tsx:136-158).
Rendered ==
    /\ page = "dashboard"
    /\ ~dash.loading
    /\ dash.plan # Null
    /\ dash.todaysPlan # Null

\* handleReset, confirmed: every key of KEYS is removed, then the landing page
HandleReset ==
    /\ Idle
    /\ Rendered
    /\ ls' = clearAllData(ls)
    /\ Route(MountLanding(ls'), TRUE, adjustReqs, planReqs)
    /\ ev' = Ev("reset", Null)
    /\ UNCHANGED <<hasWindow, today, burnoutReqs, run>>

\* handleReset, confirmed, when the removeItem of key n + 1 throws: the first
\* n keys of KEYS are gone, the exception leaves handleReset before its push
ResetFails(n) ==
    /\ Idle
    /\ Rendered
    /\ n \in 0..(Len(KEYS) - 1)
    /\ ls' = RemoveKeys(ls, n)
    /\ ev' = Ev("reset_failed", Null)
    /\ UNCHANGED <<hasWindow, today, page, dash, chk, onb, adjustReqs, burnoutReqs, planReqs, run>>

\* subjectStorage.get().map(subject => ({subject, days_until}))
UpcomingExams(s) ==
    LET subjects == subjectStorage_get(s)
    IN  [i \in 1..Len(subjects) |->
            [subject |-> subjects[i].name, days_until |-> subjects[i].exam_date - today]]

\* handleAdjustPlan up to the await.  The button is shown while the held
\* assessment has should_adjust_plan and is disabled while adjusting
\* (dashboard/page.tsx:241-246); the handler returns at once when plan,
\* todaysPlan or the assessment is missing.
HandleAdjustPlan ==
    /\ Idle
    /\ Rendered
    /\ dash.burnoutAssessment # Null
    /\ dash.burnoutAssessment[1].should_adjust_plan
    /\ ~dash.adjusting
    /\ InFlight < MaxInFlight
    /\ dash' = [dash EXCEPT !.adjusting = TRUE]
    /\ adjustReqs' = Append(adjustReqs,
           [plan |-> dash.plan[1], todaysPlan |-> dash.todaysPlan[1],
            burnoutLevel |-> dash.burnoutAssessment[1].risk_level,
            upcomingExams |-> UpcomingExams(ls), live |-> TRUE])
    /\ ev' = Ev("adjust_called", Null)
    /\ UNCHANGED <<hasWindow, ls, today, page, chk, onb, burnoutReqs, planReqs, run>>

\* Mutant of AdjustReturn: the assessment is cleared as soon as the call
\* resolves, before the merged plan is saved
AdjustReturn_ClearFirst(i, adjusted) ==
    /\ Idle
    /\ i \in 1..Len(adjustReqs)
    /\ ls' = assessmentStorage_clear(ls)
    /\ dash' = IF adjustReqs[i].live THEN [dash EXCEPT !.burnoutAssessment = Null] ELSE dash
    /\ run' = <<Frame("adjust", "stored", adjustReqs[i], adjusted)>>
    /\ ev' = Ev("adjust_stored", Null)
    /\ adjustReqs' = RemoveAt(adjustReqs, i)
    /\ UNCHANGED <<hasWindow, today, page, chk, onb, burnoutReqs, planReqs>>

\* handleAdjustPlan after the await: the day is merged and the plan saved
AdjustReturn(i, adjusted) ==
    /\ Idle
    /\ i \in 1..Len(adjustReqs)
    /\ LET r == adjustReqs[i]
           updatedPlan == UpdatedPlan(r.plan, r.todaysPlan, adjusted)
       IN  /\ ls' = planStorage_set(ls, updatedPlan)
           /\ dash' = IF r.live
                      THEN [dash EXCEPT !.plan = Some(updatedPlan),
                                        !.todaysPlan = FindDay(updatedPlan.days, r.todaysPlan.date)]
                      ELSE dash
           /\ run' = <<Frame("adjust", "stored", r, adjusted)>>
           /\ ev' = Ev("adjust_stored", Null)
    /\ adjustReqs' = RemoveAt(adjustReqs, i)
    /\ UNCHANGED <<hasWindow, today, page, chk, onb, burnoutReqs, planReqs>>

\* handleAdjustPlan: the assessment is cleared, the user told, adjusting reset
AdjustClear ==
    /\ ~Idle
    /\ run[1].h = "adjust"
    /\ ls' = assessmentStorage_clear(ls)
    /\ dash' = IF run[1].req.live
               THEN [dash EXCEPT !.burnoutAssessment = Null, !.adjusting = FALSE]
               ELSE dash
    /\ run' = <<>>
    /\ ev' = Ev("adjust_done",
                Some([original_hours |-> run[1].resp.original_hours,
                      new_hours |-> run[1].resp.new_hours,
                      removed |-> Len(run[1].resp.removed_tasks),
                      rest_days_added |-> run[1].resp.rest_days_added,
                      rationale |-> run[1].resp.rationale]))
    /\ UNCHANGED <<hasWindow, today, page, chk, onb, adjustReqs, burnoutReqs, planReqs>>

\* Mutant of AdjustFail: the assessment is cleared on the failure path too
AdjustFail_Clears(i) ==
    /\ Idle
    /\ i \in 1..Len(adjustReqs)
    /\ adjustReqs' = RemoveAt(adjustReqs, i)
    /\ ls' = assessmentStorage_clear(ls)
    /\ dash' = IF adjustReqs[i].live
               THEN [dash EXCEPT !.adjusting = FALSE, !.burnoutAssessment = Null] ELSE dash
    /\ ev' = Ev("adjust_failed", Some([failed |-> "Failed to adjust plan"]))
    /\ UNCHANGED <<hasWindow, today, page, chk, onb, burnoutReqs, planReqs, run>>

\* Mutant of AdjustFail: the finally block is missing, adjusting stays set
AdjustFail_KeepsFlag(i) ==
    /\ Idle
    /\ i \in 1..Len(adjustReqs)
    /\ adjustReqs' = RemoveAt(adjustReqs, i)
    /\ ev' = Ev("adjust_failed", Some([failed |-> "Failed to adjust plan"]))
    /\ UNCHANGED <<hasWindow, ls, today, page, dash, chk, onb, burnoutReqs, planReqs, run>>

\* adjustPlanForBurnout throws: the catch alerts, finally resets adjusting
AdjustFail(i) ==
    /\ Idle
    /\ i \in 1..Len(adjustReqs)
    /\ adjustReqs' = RemoveAt(adjustReqs, i)
    /\ dash' = IF adjustReqs[i].live THEN [dash EXCEPT !.adjusting = FALSE] ELSE dash
    /\ ev' = Ev("adjust_failed", Some([failed |-> "Failed to adjust plan"]))
    /\ UNCHANGED <<hasWindow, ls, today, page, chk, onb, burnoutReqs, planReqs, run>>

\* `${task.subject}-${task.topic}`
TaskId(task) == <<task.subject, task.topic>>

\* The checkboxes shown: one per task of todaysPlan unless it is a rest day
\* (dashboard/page.tsx:372-395)
ShownTaskIds ==
    IF dash.todaysPlan = Null \/ dash.todaysPlan[1].rest_recommended THEN {}
    ELSE {TaskId(dash.todaysPlan[1].tasks[i]) : i \in 1..Len(dash.todaysPlan[1].tasks)}

\* The body of handleTaskToggle run on store s with the component holding
\* completedTasks, on the date date: the store and the list it leaves
ToggleOutcome(s, completedTasks, date, taskId) ==
    IF Includes(completedTasks, taskId)
    THEN [ls |-> completedTasksStorage_remove(s, date, taskId),
          completedTasks |-> Without(completedTasks, taskId)]
    ELSE [ls |-> completedTasksStorage_add(s, date, taskId),
          completedTasks |-> Append(completedTasks, taskId)]

\* handleTaskToggle
HandleTaskToggle(taskId) ==
    /\ Idle
    /\ Rendered
    /\ taskId \in ShownTaskIds
    /\ ls' = ToggleOutcome(ls, dash.completedTasks, today, taskId).ls
    /\ dash' = [dash EXCEPT !.completedTasks =
                    ToggleOutcome(ls, dash.completedTasks, today, taskId).completedTasks]
    /\ ev' = Ev("toggle", Null)
    /\ UNCHANGED <<hasWindow, today, page, chk, onb, adjustReqs, burnoutReqs, planReqs, run>>

-----------------------------------------------------------------------------
(* The progress figures of the dashboard (dashboard/page.tsx:160-182).      *)
(* They are computed at every render from the plan held by the component    *)
(* and from the store.  Hours are whole numbers here; a quotient is kept as *)
(* the fraction num/den.                                                    *)

Ratio(n, d) == [num |-> n, den |-> d]

\* Math.min(q, k) for a fraction q and a whole number k
MathMin(q, k) == IF q.num <= k * q.den THEN q ELSE Ratio(k, 1)

\* reduce((sum, x) => sum + x, 0) over a sequence of numbers
RECURSIVE Reduce(_)
Reduce(xs) == IF xs = <<>> THEN 0 ELSE Reduce(SubSeq(xs, 1, Len(xs) - 1)) + xs[Len(xs)]

\* plan.days.reduce((sum, day) => sum + day.total_hours, 0)
TotalHoursThisWeek(plan) == Reduce([i \in 1..Len(plan.days) |-> plan.days[i].total_hours])

\* Mutant of CheckinHours: an entry dated as the last day of the plan is left out
CheckinHours_BeforeEnd(plan, s) ==
    LET startOfWeek == plan.days[1].date
        endOfWeek == plan.days[Len(plan.days)].date
        kept == SelectSeq(moodStorage_get(s),
                          LAMBDA entry : entry.date >= startOfWeek /\ entry.date < endOfWeek)
    IN  Reduce([i \in 1..Len(kept) |-> kept[i].actual_hours])

\* moodHistory.filter(entry => entryDate >= startOfWeek && entryDate <= endOfWeek)
\*            .reduce((sum, entry) => sum + entry.actual_hours, 0)
CheckinHours(plan, s) ==
    LET startOfWeek == plan.days[1].date
        endOfWeek == plan.days[Len(plan.days)].date
        kept == SelectSeq(moodStorage_get(s),
                          LAMBDA entry : entry.date >= startOfWeek /\ entry.date <= endOfWeek)
    IN  Reduce([i \in 1..Len(kept) |-> kept[i].actual_hours])

\* Mutant of DayCompletionHours: the hours are added up per completed id, an
\* id without a task of the day counting for one hour
DayCompletionHours_PerId(day, dayCompleted) ==
    Reduce([j \in 1..Len(dayCompleted) |->
               LET hits == SelectSeq(day.tasks, LAMBDA task : TaskId(task) = dayCompleted[j])
               IN  IF hits = <<>> THEN 1 ELSE hits[1].duration_hours])

\* day.tasks.filter(task => dayCompleted.includes(id)).reduce(... + task.duration_hours, 0)
DayCompletionHours(day, dayCompleted) ==
    LET done == SelectSeq(day.tasks, LAMBDA task : Includes(dayCompleted, TaskId(task)))
    IN  Reduce([j \in 1..Len(done) |-> done[j].duration_hours])

\* Mutant of TaskCompletionHours: every day is matched against today's ledger
TaskCompletionHours_TodaysLedger(plan, s) ==
    Reduce([i \in 1..Len(plan.days) |->
               DayCompletionHours(plan.days[i], completedTasksStorage_get(s, today))])

\* plan.days.reduce((sum, day) => sum + (hours of the tasks of day completed on day.date), 0)
TaskCompletionHours(plan, s) ==
    Reduce([i \in 1..Len(plan.days) |->
               DayCompletionHours(plan.days[i], completedTasksStorage_get(s, plan.days[i].date))])

\* Mutant of CompletedHours: the larger of the two sources instead of their sum
CompletedHours_NoDoubleCount(plan, s) ==
    IF CheckinHours(plan, s) > TaskCompletionHours(plan, s)
    THEN CheckinHours(plan, s) ELSE TaskCompletionHours(plan, s)

\* completedHours = checkinHours + taskCompletionHours
CompletedHours(plan, s) == CheckinHours(plan, s) + TaskCompletionHours(plan, s)

\* Mutant of ProgressPercent: the clamp at 100 is lost
ProgressPercent_Unclamped(plan, s) ==
    IF TotalHoursThisWeek(plan) > 0
    THEN Ratio(CompletedHours(plan, s) * 100, TotalHoursThisWeek(plan))
    ELSE Ratio(0, 1)

\* totalHoursThisWeek > 0 ? Math.min((completedHours / totalHoursThisWeek) * 100, 100) : 0
ProgressPercent(plan, s) ==
    IF TotalHoursThisWeek(plan) > 0
    THEN MathMin(Ratio(CompletedHours(plan, s) * 100, TotalHoursThisWeek(plan)), 100)
    ELSE Ratio(0, 1)

-----------------------------------------------------------------------------
(* The application *)

Next ==
    \/ Tick
    \/ \E to \in Pages : Navigate(to)
    \/ \E subjects \in SubjectForms, hours \in HourForms : OnboardSubmit(subjects, hours)
    \/ \E i \in 1..MaxInFlight, plan \in GeneratedPlans : PlanReturn(i, plan)
    \/ OnboardComplete
    \/ \E i \in 1..MaxInFlight : PlanFail(i)
    \/ \E form \in CheckinForms : CheckinSubmit(form)
    \/ CheckinPolicy
    \/ \E i \in 1..MaxInFlight, assessment \in Assessments : BurnoutReturn(i, assessment)
    \/ \E i \in 1..MaxInFlight : BurnoutFail(i)
    \/ HandleReset
    \/ HandleAdjustPlan
    \/ \E i \in 1..MaxInFlight, adjusted \in AdjustedPlans : AdjustReturn(i, adjusted)
    \/ AdjustClear
    \/ \E i \in 1..MaxInFlight : AdjustFail(i)
    \/ \E taskId \in {TaskId(T1), TaskId(T2)} : HandleTaskToggle(taskId)

Spec == Init /\ [][Next]_vars

-----------------------------------------------------------------------------
(* Focused specifications.  Each runs the same actions as Spec from a state *)
(* of the application, leaving out the actions that touch none of the       *)
(* records it is about.                                                     *)

\* The check-in of the single form of CheckinForms on day 1
SeasonedEntry == [date |-> 1, mood |-> "Burned out", mood_score |-> 1,
                  planned_hours |-> 5, actual_hours |-> 1, focus_level |-> "Low"]

\* A profile that has checked in seven times on day 1, every scoring call
\* having failed, and has not onboarded yet: the landing page is shown.
InitSeasoned ==
    /\ hasWindow = TRUE
    /\ ls = [EmptyStorage EXCEPT ![K_MOOD_HISTORY] =
                Some(JSONStringify([i \in 1..MoodCap |-> SeasonedEntry]))]
    /\ today = 1
    /\ page = "home"
    /\ dash = DashUnmounted
    /\ chk = FormIdle
    /\ onb = FormIdle
    /\ adjustReqs = <<>>
    /\ burnoutReqs = <<>>
    /\ planReqs = <<>>
    /\ run = <<>>
    /\ ev = Ev("init", Null)

\* Onboarding, check-ins and plan adjustment, interleaved
NextAdjust ==
    \/ \E to \in Pages : Navigate(to)
    \/ \E subjects \in FilledForms, hours \in HourForms : OnboardSubmit(subjects, hours)
    \/ \E i \in 1..MaxInFlight, plan \in GeneratedPlans : PlanReturn(i, plan)
    \/ OnboardComplete
    \/ \E i \in 1..MaxInFlight : PlanFail(i)
    \/ \E form \in CheckinForms : CheckinSubmit(form)
    \/ CheckinPolicy
    \/ \E i \in 1..MaxInFlight, assessment \in Assessments : BurnoutReturn(i, assessment)
    \/ \E i \in 1..MaxInFlight : BurnoutFail(i)
    \/ HandleAdjustPlan
    \/ \E i \in 1..MaxInFlight, adjusted \in AdjustedPlans : AdjustReturn(i, adjusted)
    \/ AdjustClear
    \/ \E i \in 1..MaxInFlight : AdjustFail(i)

SpecAdjust == InitSeasoned /\ [][NextAdjust]_vars

-----------------------------------------------------------------------------
(* Claims about Adjust Plan, under SpecAdjust *)

\* The frame of the adjustment whose merged plan has just been saved
AdjustStored == run # <<>> /\ run[1].h = "adjust"

\* The days of plan p dated d
DaysDated(p, d) == {i \in 1..Len(p.days) : p.days[i].date = d}

\* C1: once handleAdjustPlan has saved the merged plan, the plan read back
\* from the store has the week_number, the burnout_risk, the number of days
\* and the date sequence of the plan the adjustment was given, and every day
\* not dated as the adjusted day equals the day at the same place of that plan.
C1_AdjustKeepsOtherDays ==
    AdjustStored =>
        LET before == run[1].req.plan
            target == run[1].req.todaysPlan.date
            stored == planStorage_get(ls)
        IN  /\ stored # Null
            /\ stored[1].week_number = before.week_number
            /\ stored[1].burnout_risk = before.burnout_risk
            /\ Len(stored[1].days) = Len(before.days)
            /\ \A i \in 1..Len(before.days) :
                  /\ stored[1].days[i].date = before.days[i].date
                  /\ before.days[i].date # target => stored[1].days[i] = before.days[i]

\* C1 witness: a two-day plan has been adjusted on one day; the other day is
\* there to be compared, and the adjusted day did change.
C1_Witness ==
    /\ AdjustStored
    /\ Len(run[1].req.plan.days) = 2
    /\ DaysDated(run[1].req.plan, run[1].req.todaysPlan.date) # {}
    /\ planStorage_get(ls) # Some(run[1].req.plan)

\* C2: in the saved plan, each day dated as the adjusted day keeps its date,
\* has the tasks modified_tasks, the total_hours new_hours (whatever the
\* durations of the tasks add up to) and rest_recommended exactly when
\* rest_days_added > 0.
C2_AdjustedDay ==
    AdjustStored =>
        LET before == run[1].req.plan
            target == run[1].req.todaysPlan.date
            A == run[1].resp
            stored == planStorage_get(ls)
        IN  /\ stored # Null
            /\ Len(stored[1].days) = Len(before.days)
            /\ DaysDated(before, target) # {}
            /\ \A i \in DaysDated(before, target) :
                  /\ stored[1].days[i].date = target
                  /\ stored[1].days[i].tasks = A.modified_tasks
                  /\ stored[1].days[i].total_hours = A.new_hours
                  /\ stored[1].days[i].rest_recommended = (A.rest_days_added > 0)

\* C2 witness: an adjustment that adds rest days and whose new_hours differ
\* from the summed durations of its tasks has been merged into a day that
\* was no rest day.
C2_Witness ==
    /\ AdjustStored
    /\ run[1].resp.rest_days_added > 0
    /\ run[1].resp.new_hours # SumDurations(run[1].resp.modified_tasks)
    /\ ~run[1].req.todaysPlan.rest_recommended
    /\ run[1].resp.modified_tasks # <<>>

\* The steps of handleAdjustPlan
AdjustOps == {"adjust_called", "adjust_stored", "adjust_done", "adjust_failed"}

\* C4: a step of handleAdjustPlan changes the stored assessment only when the
\* store already holds the plan merged by that same adjustment, and the step
\* that clears the assessment leaves that plan in place.
C4_ClearAfterPlanStored ==
    [][(ev'.op \in AdjustOps /\ (ev'.op = "adjust_done" \/ ls'[K_LAST_ASSESSMENT] # ls[K_LAST_ASSESSMENT]))
        => /\ AdjustStored
           /\ planStorage_get(ls) =
                 Some(UpdatedPlan(run[1].req.plan, run[1].req.todaysPlan, run[1].resp))
           /\ planStorage_get(ls') = planStorage_get(ls)
           /\ assessmentStorage_get(ls') = Null]_vars

\* C4 witness: an adjustment has run to its end: the assessment is gone and
\* the stored plan holds a day with the adjustment's hours.
C4_Witness ==
    /\ ev.op = "adjust_done"
    /\ assessmentStorage_get(ls) = Null
    /\ planStorage_get(ls) # Null
    /\ \E i \in 1..Len(planStorage_get(ls)[1].days) :
          planStorage_get(ls)[1].days[i].total_hours = ev.alert[1].new_hours

\* C5: neither the step that issues adjustPlanForBurnout nor the step that
\* handles its failure changes a record of the store; the stored plan and
\* assessment are in particular what they were.
C5_AdjustFailureKeepsStore ==
    [][ev'.op \in {"adjust_called", "adjust_failed"}
        => /\ ls' = ls
           /\ planStorage_get(ls') = planStorage_get(ls)
           /\ assessmentStorage_get(ls') = assessmentStorage_get(ls)]_vars

\* C5 witness: an adjustment has failed with a plan and an assessment stored
C5_Witness ==
    /\ ev.op = "adjust_failed"
    /\ planStorage_get(ls) # Null
    /\ assessmentStorage_get(ls) # Null
    /\ assessmentStorage_get(ls)[1].should_adjust_plan

-----------------------------------------------------------------------------
(* Claims about onboarding, under SpecOnboard *)

\* Onboarding submits, their plan calls, resets and navigation, from a fresh
\* profile
NextOnboard ==
    \/ \E to \in Pages : Navigate(to)
    \/ \E subjects \in SubjectForms, hours \in HourForms : OnboardSubmit(subjects, hours)
    \/ \E i \in 1..MaxInFlight, plan \in GeneratedPlans : PlanReturn(i, plan)
    \/ OnboardComplete
    \/ \E i \in 1..MaxInFlight : PlanFail(i)
    \/ HandleReset

SpecOnboard == Init /\ [][NextOnboard]_vars

\* C6: when a generatePlan call fails, the submit that issued it had written
\* nothing to the store before calling, and the failure step writes nothing:
\* no record differs from what the submit found.
C6_FailedGenerationKeepsStore ==
    [][ev'.op = "plan_failed"
        => /\ ls' = ls
           /\ \A i \in 1..Len(planReqs) :
                 planReqs' = RemoveAt(planReqs, i) => ~planReqs[i].wrote]_vars

\* C7: the onboarding flag turns true only in the step that follows the save
\* of the generated plan, with that plan stored before and after the step;
\* the failure of a generatePlan call leaves the flag as it was.
C7_FlagAfterPlanStored ==
    [][/\ (~onboardingStorage_isComplete(ls) /\ onboardingStorage_isComplete(ls'))
            => /\ run # <<>>
               /\ run[1].h = "onboard"
               /\ planStorage_get(ls) = Some(run[1].resp)
               /\ planStorage_get(ls') = Some(run[1].resp)
       /\ ev'.op = "plan_failed"
            => onboardingStorage_isComplete(ls') = onboardingStorage_isComplete(ls)]_vars

\* C7 witness: a submit has run to its end: the flag is set, a plan is stored
C7_Witness ==
    /\ ev.op = "onboard_done"
    /\ onboardingStorage_isComplete(ls)
    /\ planStorage_get(ls) # Null
    /\ planStorage_get(ls)[1] \in GeneratedPlans

-----------------------------------------------------------------------------
(* Claims about check-ins, under SpecCheckin *)

\* Check-ins on successive days, their scoring calls and navigation, from a
\* fresh profile
NextCheckin ==
    \/ Tick
    \/ \E to \in Pages : Navigate(to)
    \/ \E form \in CheckinForms : CheckinSubmit(form)
    \/ CheckinPolicy
    \/ \E i \in 1..MaxInFlight, assessment \in Assessments : BurnoutReturn(i, assessment)
    \/ \E i \in 1..MaxInFlight : BurnoutFail(i)

SpecCheckin == Init /\ [][NextCheckin]_vars


\* C8: the stored mood history never holds more than 7 entries; a check-in
\* on a history of 7 leaves the 6 newest of them, in order, followed by the
\* new entry, and a check-in on a shorter history only appends.
C8_MoodHistoryCap ==
    /\ [](Len(moodStorage_get(ls)) <= 7)
    /\ [][ev'.op = "checkin_added"
           => moodStorage_get(ls') =
                 IF Len(moodStorage_get(ls)) = 7
                 THEN Append(Tail(moodStorage_get(ls)), run'[1].req)
                 ELSE Append(moodStorage_get(ls), run'[1].req)]_vars

\* C8 witness: a scoring call issued on a history of 7 is still in flight
\* and a later check-in, on another day, has pushed that history's oldest
\* entry out.
C8_Witness ==
    /\ ev.op = "checkin_added"
    /\ \E k \in 1..Len(burnoutReqs) :
          /\ Len(burnoutReqs[k].history) = 7
          /\ burnoutReqs[k].history[1] # burnoutReqs[k].history[7]
          /\ moodStorage_get(ls) = Append(Tail(burnoutReqs[k].history), run[1].req)
          /\ moodStorage_get(ls) # burnoutReqs[k].history

\* C9: a checkBurnout call is issued only by the step of a check-in that
\* finds at least 3 entries in the history it reads back, and carries that
\* history; the steps of a check-in that leave fewer than 3 entries issue no
\* call and leave the stored assessment as it was.
C9_NoScoringBelowThree ==
    [][/\ Len(burnoutReqs') > Len(burnoutReqs)
            => /\ ev'.op = "checkin_called"
               /\ Len(moodStorage_get(ls')) >= 3
               /\ burnoutReqs' = Append(burnoutReqs, [history |-> moodStorage_get(ls')])
       /\ (ev'.op \in {"checkin_added", "checkin_skipped", "checkin_called"}
             /\ Len(moodStorage_get(ls')) < 3)
            => /\ burnoutReqs' = burnoutReqs
               /\ assessmentStorage_get(ls') = assessmentStorage_get(ls)]_vars

\* C9 witness: a check-in that left 2 entries has ended without a call
C9_Witness ==
    /\ ev.op = "checkin_skipped"
    /\ Len(moodStorage_get(ls)) = 2
    /\ burnoutReqs = <<>>

\* C10: the step that saves a check-in puts the new entry at the end of the
\* stored history, and neither it, nor the step that issues checkBurnout, nor
\* the step that handles the call's failure changes anything else: after the
\* failure the history and the assessment are those the failure found.
C10_ScoringFailureKeepsCheckin ==
    [][/\ ev'.op = "checkin_added"
            => /\ moodStorage_get(ls')[Len(moodStorage_get(ls'))] = run'[1].req
               /\ \A k \in AllKeys \ {K_MOOD_HISTORY} : ls'[k] = ls[k]
       /\ ev'.op \in {"checkin_called", "burnout_failed"} => ls' = ls]_vars

\* C10 witness: a scoring call has failed; the history holds the entries and
\* an earlier assessment is still stored.
C10_Witness ==
    /\ ev.op = "burnout_failed"
    /\ Len(moodStorage_get(ls)) >= 3
    /\ assessmentStorage_get(ls) # Null

-----------------------------------------------------------------------------
(* The plan merge as a function of its inputs, under SpecReconcile *)

ReconcileDayPool == { Day(1, <<T1, T2>>, 3, FALSE), Day(2, <<T2>>, 1, TRUE) }

\* Every plan of at most two days of the pool, dates unique, in either order
ReconcilePlans ==
    { Plan(1, ds, b) :
        ds \in {<<>>} \cup {<<d>> : d \in ReconcileDayPool}
               \cup {de \in ReconcileDayPool \X ReconcileDayPool : de[1].date # de[2].date},
        b \in {"Low", "High"} }

\* The day handed over as todaysPlan: only its date is read.  No plan has a
\* day dated 3.
ReconcileTargets == { Day(d, <<>>, 0, FALSE) : d \in {1, 2, 3} }

InitReconcile ==
    /\ hasWindow = TRUE
    /\ ls = EmptyStorage
    /\ today = 1
    /\ page = "home"
    /\ dash = DashUnmounted
    /\ chk = FormIdle
    /\ onb = FormIdle
    /\ adjustReqs = <<>>
    /\ burnoutReqs = <<>>
    /\ planReqs = <<>>
    /\ \E p \in ReconcilePlans, t \in ReconcileTargets, a \in AdjustedPlans :
          run = <<Frame("reconcile", "input", [plan |-> p, todaysPlan |-> t, adjusted |-> a], Null)>>
    /\ ev = Ev("init", Null)

\* updatedPlan is computed from the inputs (dashboard/page.tsx:83-98)
ReconcileApply ==
    /\ ~Idle
    /\ run[1].h = "reconcile"
    /\ run[1].at = "input"
    /\ run' = <<Frame("reconcile", "output", run[1].req,
                      Some(UpdatedPlan(run[1].req.plan, run[1].req.todaysPlan, run[1].req.adjusted)))>>
    /\ ev' = Ev("reconciled", Null)
    /\ UNCHANGED <<hasWindow, ls, today, page, dash, chk, onb, adjustReqs, burnoutReqs, planReqs>>

NextReconcile == ReconcileApply

SpecReconcile == InitReconcile /\ [][NextReconcile]_vars

Reconciled == run # <<>> /\ run[1].h = "reconcile" /\ run[1].at = "output"

\* C3: merging an AdjustedPlan for a date that no day of the plan has yields
\* the plan it was given.
C3_AbsentDateIsNoOp ==
    (Reconciled /\ DaysDated(run[1].req.plan, run[1].req.todaysPlan.date) = {})
        => run[1].resp = Some(run[1].req.plan)

\* C3 witness: a two-day plan has been merged for a date it does not have
C3_Witness ==
    /\ Reconciled
    /\ Len(run[1].req.plan.days) = 2
    /\ DaysDated(run[1].req.plan, run[1].req.todaysPlan.date) = {}
    /\ run[1].req.adjusted.modified_tasks # <<>>

-----------------------------------------------------------------------------
(* The progress figures as a function of the plan and the store, under      *)
(* SpecProgress: a dashboard mounted on a stored plan, mood history and     *)
(* completed-task records, rendered once.                                   *)

T1short == Task("OS", "paging", 1)

\* A day with more tasks than hours, a day without planned hours, a rest day
\* and a day holding two tasks of the same subject and topic
ProgressDayPool ==
    { Day(1, <<T1, T2>>, 3, FALSE), Day(1, <<T2>>, 0, FALSE),
      Day(2, <<T2>>, 0, TRUE), Day(2, <<T1, T1short>>, 3, FALSE) }

\* Plans of one day, or of two days of different dates in either order
ProgressPlans ==
    { Plan(1, ds, "Low") :
        ds \in {<<d>> : d \in ProgressDayPool}
               \cup {de \in ProgressDayPool \X ProgressDayPool : de[1].date # de[2].date} }

\* Check-ins of the days 0..3 (the plans have the days 1 and 2), 1 or 4 hours
ProgressEntries ==
    { [SeasonedEntry EXCEPT !.date = d, !.actual_hours = a] : d \in 0..3, a \in {1, 4} }

ProgressHistories ==
    {<<>>} \cup {<<e>> : e \in ProgressEntries} \cup (ProgressEntries \X ProgressEntries)

ProgressLedgers ==
    { <<>>, <<TaskId(T1)>>, <<TaskId(T2)>>, <<TaskId(T2), TaskId(T1)>> }

InitProgress ==
    /\ hasWindow = TRUE
    /\ today = 1
    /\ \E plan \in ProgressPlans, history \in ProgressHistories,
          c1 \in ProgressLedgers, c2 \in ProgressLedgers :
          ls = completedTasksStorage_set(
                 completedTasksStorage_set(
                   moodStorage_set(
                     planStorage_set(onboardingStorage_setComplete(EmptyStorage), plan),
                     history),
                   1, c1),
                 2, c2)
    /\ page = "dashboard"
    /\ dash = MountDashboard(ls).dash
    /\ chk = FormIdle
    /\ onb = FormIdle
    /\ adjustReqs = <<>>
    /\ burnoutReqs = <<>>
    /\ planReqs = <<>>
    /\ run = <<>>
    /\ ev = Ev("init", Null)

\* DashboardPage's render past its guards: the figures shown (dashboard/page.tsx:160-182)
RenderProgress ==
    /\ Idle
    /\ Rendered
    /\ run' = <<Frame("render", "shown", dash.plan[1],
                      [totalHoursThisWeek |-> TotalHoursThisWeek(dash.plan[1]),
                       checkinHours |-> CheckinHours(dash.plan[1], ls),
                       taskCompletionHours |-> TaskCompletionHours(dash.plan[1], ls),
                       completedHours |-> CompletedHours(dash.plan[1], ls),
                       progressPercent |-> ProgressPercent(dash.plan[1], ls)])>>
    /\ ev' = Ev("render", Null)
    /\ UNCHANGED <<hasWindow, ls, today, page, dash, chk, onb, adjustReqs, burnoutReqs, planReqs>>

NextProgress == RenderProgress

SpecProgress == InitProgress /\ [][NextProgress]_vars

Shown == run # <<>> /\ run[1].h = "render"

\* The sum of f over the finite set S
RECURSIVE SumOver(_, _)
SumOver(f, S) ==
    IF S = {} THEN 0 ELSE LET x == CHOOSE x \in S : TRUE IN f[x] + SumOver(f, S \ {x})

\* The total planned hours of the plan rendered
PlannedTotal == SumOver([i \in 1..Len(run[1].req.days) |-> run[1].req.days[i].total_hours],
                        1..Len(run[1].req.days))

\* C11 as stated: progressPercent lies in [0, 100], and is 100 whenever
\* completedHours exceeds the total planned hours.
C11_PercentClampedAsStated ==
    Shown =>
        LET p == run[1].resp.progressPercent
        IN  /\ p.den > 0
            /\ 0 <= p.num
            /\ p.num <= 100 * p.den
            /\ run[1].resp.completedHours > PlannedTotal => p.num = 100 * p.den

\* C11 amended: progressPercent lies in [0, 100]; it is 100 whenever
\* completedHours exceeds a total of planned hours that is above 0, and 0
\* when no hours are planned.
C11_PercentClamped ==
    Shown =>
        LET p == run[1].resp.progressPercent
        IN  /\ p.den > 0
            /\ 0 <= p.num
            /\ p.num <= 100 * p.den
            /\ (PlannedTotal > 0 /\ run[1].resp.completedHours > PlannedTotal)
                  => p.num = 100 * p.den
            /\ PlannedTotal = 0 => p.num = 0

\* C11 witness: more hours are reported than the plan has, and the plan has some
C11_Witness ==
    /\ Shown
    /\ PlannedTotal > 0
    /\ run[1].resp.completedHours > PlannedTotal
    /\ run[1].resp.checkinHours > 0
    /\ run[1].resp.taskCompletionHours > 0

\* C12: completedHours is checkinHours plus taskHours, hours studied on a
\* task being counted in both; progressPercent is 0 when the planned total
\* is 0, and otherwise the smaller of 100 and 100 * completedHours / total.
C12_CompletedAndPercent ==
    Shown =>
        LET r == run[1].resp
            p == r.progressPercent
        IN  /\ r.completedHours = r.checkinHours + r.taskCompletionHours
            /\ r.totalHoursThisWeek = PlannedTotal
            /\ p.den > 0
            /\ PlannedTotal = 0 => p.num = 0
            /\ PlannedTotal > 0 =>
                  p.num * PlannedTotal =
                      p.den * (IF r.completedHours <= PlannedTotal
                               THEN 100 * r.completedHours ELSE 100 * PlannedTotal)

\* C12 witness: both sources report hours and the figure stays below 100
C12_Witness ==
    /\ Shown
    /\ run[1].resp.checkinHours > 0
    /\ run[1].resp.taskCompletionHours > 0
    /\ PlannedTotal > run[1].resp.completedHours

\* C13: checkinHours is the sum of actual_hours over the entries of the
\* stored history dated from the date of the plan's first day to the date of
\* its last day, both included.
C13_CheckinHoursInRange ==
    Shown =>
        LET days == run[1].req.days
            history == moodStorage_get(ls)
            inside == {i \in 1..Len(history) :
                          days[1].date <= history[i].date /\ history[i].date <= days[Len(days)].date}
        IN  run[1].resp.checkinHours =
                SumOver([i \in 1..Len(history) |-> history[i].actual_hours], inside)

\* C13 witness: a two-day plan; one entry is dated as its last day, the
\* other after it
C13_Witness ==
    /\ Shown
    /\ Len(run[1].req.days) = 2
    /\ run[1].req.days[1].date < run[1].req.days[2].date
    /\ Len(moodStorage_get(ls)) = 2
    /\ moodStorage_get(ls)[1].date = run[1].req.days[2].date
    /\ moodStorage_get(ls)[2].date > run[1].req.days[2].date
    /\ run[1].resp.checkinHours = moodStorage_get(ls)[1].actual_hours

\* The tasks of the plan rendered, as <<day, task>> positions
TaskPositions ==
    {pos \in (1..Len(run[1].req.days)) \X (1..2) : pos[2] <= Len(run[1].req.days[pos[1]].tasks)}

\* C14: taskHours is the sum of duration_hours over the tasks of the plan
\* whose identity is in the completed-task record of their own day's date.
C14_TaskHoursByOwnDate ==
    Shown =>
        LET days == run[1].req.days
            marked == {pos \in TaskPositions :
                          Includes(completedTasksStorage_get(ls, days[pos[1]].date),
                                   TaskId(days[pos[1]].tasks[pos[2]]))}
        IN  run[1].resp.taskCompletionHours =
                SumOver([pos \in TaskPositions |-> days[pos[1]].tasks[pos[2]].duration_hours],
                        marked)

\* C14 witness: a task of the second day is recorded under the first day's
\* date only, and counts for nothing; a task of the first day counts
C14_Witness ==
    /\ Shown
    /\ Len(run[1].req.days) = 2
    /\ run[1].req.days[1].date = 1
    /\ Includes(completedTasksStorage_get(ls, 1), TaskId(T1))
    /\ ~Includes(completedTasksStorage_get(ls, 2), TaskId(T1))
    /\ \E j \in 1..Len(run[1].req.days[2].tasks) : TaskId(run[1].req.days[2].tasks[j]) = TaskId(T1)
    /\ run[1].resp.taskCompletionHours = T1.duration_hours

-----------------------------------------------------------------------------
(* Onboarding, the task checkboxes and the reset, across a change of day *)

NextToggle ==
    \/ Tick
    \/ \E to \in Pages : Navigate(to)
    \/ \E subjects \in FilledForms, hours \in HourForms : OnboardSubmit(subjects, hours)
    \/ \E i \in 1..MaxInFlight, plan \in GeneratedPlans : PlanReturn(i, plan)
    \/ OnboardComplete
    \/ \E i \in 1..MaxInFlight : PlanFail(i)
    \/ \E taskId \in {TaskId(T1), TaskId(T2)} : HandleTaskToggle(taskId)
    \/ HandleReset

SpecToggle == Init /\ [][NextToggle]_vars

\* The task ids a list holds
IdsOf(list) == {list[i] : i \in 1..Len(list)}

\* The store after the checkbox of taskId is clicked twice in a row
ToggledTwice(taskId) ==
    LET once == ToggleOutcome(ls, dash.completedTasks, today, taskId)
    IN  ToggleOutcome(once.ls, once.completedTasks, today, taskId).ls

\* C15: right after a task shown in the list is toggled, its duration_hours
\* is counted in taskHours exactly when the task is now marked completed.
C15_ToggleSeenByProgress ==
    [][ev'.op = "toggle" =>
          \A j \in 1..Len(dash'.todaysPlan[1].tasks) :
             LET task == dash'.todaysPlan[1].tasks[j]
                 alone == [dash'.plan[1] EXCEPT
                             !.days = <<[dash'.todaysPlan[1] EXCEPT !.tasks = <<task>>]>>]
             IN  Includes(dash'.completedTasks, TaskId(task)) # Includes(dash.completedTasks, TaskId(task))
                   => ((TaskCompletionHours(alone, ls') = task.duration_hours)
                          <=> Includes(dash'.completedTasks, TaskId(task)))]_vars

\* C16: for every task shown, two toggles in a row leave the completed-task
\* record of the date holding the task ids it held.
C16_ToggleTwiceKeepsLedger ==
    (Idle /\ Rendered) =>
        \A taskId \in ShownTaskIds :
            IdsOf(completedTasksStorage_get(ToggledTwice(taskId), today))
                = IdsOf(completedTasksStorage_get(ls, today))

\* C17: for every task shown, two toggles in a row leave completedHours, and
\* with it progressPercent, as they were.
C17_ToggleTwiceKeepsHours ==
    (Idle /\ Rendered) =>
        \A taskId \in ShownTaskIds :
            /\ CompletedHours(dash.plan[1], ToggledTwice(taskId)) = CompletedHours(dash.plan[1], ls)
            /\ ProgressPercent(dash.plan[1], ToggledTwice(taskId)) = ProgressPercent(dash.plan[1], ls)

\* C20: after the reset every record reads as its empty default, the
\* completed-task record of every date included.
C20_ResetClearsEverything ==
    [][ev'.op = "reset" =>
          /\ subjectStorage_get(ls') = <<>>
          /\ planStorage_get(ls') = Null
          /\ moodStorage_get(ls') = <<>>
          /\ hoursStorage_get(ls') = DefaultHours
          /\ getItem(ls', K_FIXED_COMMITMENTS) = Null
          /\ assessmentStorage_get(ls') = Null
          /\ ~onboardingStorage_isComplete(ls')
          /\ \A d \in Dates : completedTasksStorage_get(ls', d) = <<>>]_vars

-----------------------------------------------------------------------------
(* Check-ins of a profile with a full history, scored at every risk level *)

\* One assessment per risk level; the recommendations number 1, 4, 4 and 2
ScoredAssessments ==
    { [risk_level |-> "Low", risk_score |-> 10, signals |-> <<>>,
       recommendations |-> <<"r1">>, should_adjust_plan |-> FALSE],
      [risk_level |-> "Medium", risk_score |-> 50, signals |-> <<"s1">>,
       recommendations |-> <<"r1", "r2", "r3", "r4">>, should_adjust_plan |-> FALSE],
      [risk_level |-> "High", risk_score |-> 80, signals |-> <<"s1">>,
       recommendations |-> <<"r1", "r2", "r3", "r4">>, should_adjust_plan |-> TRUE],
      [risk_level |-> "Critical", risk_score |-> 95, signals |-> <<"s1">>,
       recommendations |-> <<"r1", "r2">>, should_adjust_plan |-> TRUE] }

NextAlert ==
    \/ Tick
    \/ \E to \in Pages : Navigate(to)
    \/ \E form \in CheckinForms : CheckinSubmit(form)
    \/ CheckinPolicy
    \/ \E i \in 1..MaxInFlight, assessment \in ScoredAssessments : BurnoutReturn(i, assessment)
    \/ \E i \in 1..MaxInFlight : BurnoutFail(i)

SpecAlert == InitSeasoned /\ [][NextAlert]_vars

\* C18: when a check-in's scoring call returns, the assessment is in the
\* store; if its risk_level is High or Critical the user is alerted with
\* that level and its first 3 recommendations in order (all of them when
\* there are fewer), and otherwise there is no alert.
C18_AlertOnHighOrCritical ==
    [][ev'.op = "burnout_ok" =>
          \E a \in ScoredAssessments :
             /\ assessmentStorage_get(ls') = Some(a)
             /\ IF a.risk_level \in {"High", "Critical"}
                THEN /\ ev'.alert # Null
                     /\ ev'.alert[1].risk_level = a.risk_level
                     /\ Len(ev'.alert[1].recommendations) =
                           (IF Len(a.recommendations) < 3 THEN Len(a.recommendations) ELSE 3)
                     /\ \A k \in 1..Len(ev'.alert[1].recommendations) :
                           ev'.alert[1].recommendations[k] = a.recommendations[k]
                ELSE ev'.alert = Null]_vars

\* C18 witness: a Critical assessment with 2 recommendations has been
\* stored and alerted with both
C18_Witness ==
    /\ ev.op = "burnout_ok"
    /\ ev.alert # Null
    /\ ev.alert[1].risk_level = "Critical"
    /\ Len(ev.alert[1].recommendations) = 2
    /\ assessmentStorage_get(ls) # Null
    /\ assessmentStorage_get(ls)[1].risk_level = "Critical"

-----------------------------------------------------------------------------
(* Plan adjustment on a single assessment: no check-in happens, so every    *)
(* adjustment of a behaviour uses the assessment the profile starts with.   *)

\* An onboarded profile with a plan, a full mood history and a stored
\* assessment that asks for an adjustment; the dashboard is shown.
InitAssessed ==
    /\ hasWindow = TRUE
    /\ today = 1
    /\ \E plan \in {p \in GeneratedPlans : Len(p.days) > 0},
          assessment \in {a \in Assessments : a.should_adjust_plan} :
          ls = assessmentStorage_set(
                 moodStorage_set(
                   planStorage_set(
                     hoursStorage_set(
                       subjectStorage_set(onboardingStorage_setComplete(EmptyStorage),
                                          <<Subject("OS", 2)>>),
                       4),
                     plan),
                   [i \in 1..MoodCap |-> SeasonedEntry]),
                 assessment)
    /\ page = "dashboard"
    /\ dash = MountDashboard(ls).dash
    /\ chk = FormIdle
    /\ onb = FormIdle
    /\ adjustReqs = <<>>
    /\ burnoutReqs = <<>>
    /\ planReqs = <<>>
    /\ run = <<>>
    /\ ev = Ev("init", Null)

NextAdjustOnce ==
    \/ Tick
    \/ \E to \in Pages : Navigate(to)
    \/ HandleAdjustPlan
    \/ \E i \in 1..MaxInFlight, adjusted \in AdjustedPlans : AdjustReturn(i, adjusted)
    \/ AdjustClear
    \/ \E i \in 1..MaxInFlight : AdjustFail(i)

SpecAdjustOnce == InitAssessed /\ [][NextAdjustOnce]_vars

\* C19: Adjust Plan is triggered only while an assessment with
\* should_adjust_plan is held; an adjustment is merged only while the
\* assessment is still in the store, that is, not yet consumed by an earlier
\* adjustment; and once an adjustment is applied the store has no assessment.
C19_AssessmentConsumedOnce ==
    [][/\ ev'.op = "adjust_called"
            => /\ dash.burnoutAssessment # Null
               /\ dash.burnoutAssessment[1].should_adjust_plan
       /\ ev'.op = "adjust_stored" => assessmentStorage_get(ls) # Null
       /\ ev'.op = "adjust_done" => assessmentStorage_get(ls') = Null]_vars

-----------------------------------------------------------------------------
(* Onboarding and the reset, the reset failing at any of its keys *)

NextReset ==
    \/ \E to \in Pages : Navigate(to)
    \/ \E subjects \in FilledForms, hours \in HourForms : OnboardSubmit(subjects, hours)
    \/ \E i \in 1..MaxInFlight, plan \in GeneratedPlans : PlanReturn(i, plan)
    \/ OnboardComplete
    \/ \E i \in 1..MaxInFlight : PlanFail(i)
    \/ HandleReset
    \/ \E n \in 0..(Len(KEYS) - 1) : ResetFails(n)

SpecReset == Init /\ [][NextReset]_vars

\* C21: when clearAllData stops after removing a strict prefix of its keys,
\* the store it leaves has onboardingStorage.isComplete() false.
C21_PartialResetNotOnboarded ==
    [][ev'.op = "reset_failed" => ~onboardingStorage_isComplete(ls')]_vars

-----------------------------------------------------------------------------
(* Validation of the onboarding form, under SpecOnboard *)

\* Every subject has a name with something other than blanks and an exam date
AllFilledIn(subjects) ==
    \A i \in 1..Len(subjects) : subjects[i].name \notin {"", " "} /\ subjects[i].exam_date # 0

\* C22: a submit rejected by the validation sets the error text and changes
\* neither the store nor the calls in flight; and a submit that does write
\* subjects or issue generatePlan carries only subjects that are filled in.
C22_InvalidSubmitRejected ==
    [][/\ ev'.op = "onboard_invalid"
            => /\ ls' = ls
               /\ planReqs' = planReqs
               /\ onb'.error # ""
               /\ ~onb'.loading
       /\ Len(planReqs') > Len(planReqs) => AllFilledIn(planReqs'[Len(planReqs')].subjects)
       /\ subjectStorage_get(ls') # subjectStorage_get(ls) => AllFilledIn(subjectStorage_get(ls'))]_vars

\* C22 witness: a submit has been rejected on a fresh profile; nothing is
\* stored and no call is in flight
C22_Witness ==
    /\ ev.op = "onboard_invalid"
    /\ onb.error # ""
    /\ ls = EmptyStorage
    /\ planReqs = <<>>

-----------------------------------------------------------------------------
(* The storage module called directly (storage.ts:20-117): one call on a    *)
(* store that is empty or filled, in a browser or without a window.  In a   *)
(* browser the localStorage access of a call either works or throws (storage*)
(* blocked by the browser's settings, quota exhausted); storage.ts has no   *)
(* try/catch, so the exception leaves the accessor.                         *)

SubjectValues == { <<>>, <<Subject("OS", 2)>> }
MoodValues == { <<>>, <<SeasonedEntry>> }
HourValues == {0, 4}
CommitmentValues == { {}, {<<"Monday", <<(<<9, 15>>)>> >>} }
LedgerValues == { <<>>, <<TaskId(T1)>> }

\* A store in which every key holds an item
FilledStorage ==
    [k \in AllKeys |->
        Some(JSONStringify(
            CASE k = K_SUBJECTS -> <<Subject("OS", 2)>>
              [] k = K_WEEKLY_PLAN -> Plan(2, <<Day(2, <<T1>>, 2, FALSE)>>, "High")
              [] k = K_MOOD_HISTORY -> [i \in 1..MoodCap |-> SeasonedEntry]
              [] k = K_AVAILABLE_HOURS -> 4
              [] k = K_FIXED_COMMITMENTS -> {<<"Monday", <<(<<9, 15>>)>> >>}
              [] k = K_LAST_ASSESSMENT ->
                    CHOOSE a \in Assessments : a.should_adjust_plan
              [] k = K_ONBOARDING_COMPLETE -> TRUE
              [] OTHER -> <<TaskId(T1)>>))]

StoreContents == { EmptyStorage, FilledStorage }

InitStore ==
    /\ hasWindow \in BOOLEAN
    /\ ls \in StoreContents
    /\ today = 1
    /\ page = "home"
    /\ dash = DashUnmounted
    /\ chk = FormIdle
    /\ onb = FormIdle
    /\ adjustReqs = <<>>
    /\ burnoutReqs = <<>>
    /\ planReqs = <<>>
    /\ run = <<>>
    /\ ev = Ev("init", Null)

\* What the medium can do during one call
Media == IF hasWindow THEN {"ok", "blocked"} ELSE {"absent"}

\* One call of the operation op with argument arg, which yields the store
\* after and returns ret unless localStorage throws
StoreCall(op, arg, after, ret, medium) ==
    /\ Idle
    /\ medium \in Media
    /\ ls' = IF medium = "blocked" THEN ls ELSE after
    /\ run' = <<Frame("store", op, [medium |-> medium, arg |-> arg],
                      [threw |-> medium = "blocked",
                       ret |-> IF medium = "blocked" THEN Null ELSE ret])>>
    /\ ev' = Ev("store", Null)
    /\ UNCHANGED <<hasWindow, today, page, dash, chk, onb, adjustReqs, burnoutReqs, planReqs>>

Call_getItem(key, m) == StoreCall("getItem", Some(key), ls, getItem(ls, key), m)
Call_subjectStorage_set(v, m) ==
    StoreCall("subjectStorage.set", Some(v), subjectStorage_set(ls, v), Null, m)
Call_planStorage_set(v, m) ==
    StoreCall("planStorage.set", Some(v), planStorage_set(ls, v), Null, m)
Call_moodStorage_set(v, m) ==
    StoreCall("moodStorage.set", Some(v), moodStorage_set(ls, v), Null, m)
Call_moodStorage_add(e, m) ==
    StoreCall("moodStorage.add", Some(e), moodStorage_add(ls, e), Null, m)
Call_hoursStorage_set(v, m) ==
    StoreCall("hoursStorage.set", Some(v), hoursStorage_set(ls, v), Null, m)
Call_commitmentsStorage_set(v, m) ==
    StoreCall("commitmentsStorage.set", Some(v), commitmentsStorage_set(ls, v), Null, m)
Call_assessmentStorage_set(v, m) ==
    StoreCall("assessmentStorage.set", Some(v), assessmentStorage_set(ls, v), Null, m)
Call_assessmentStorage_clear(m) ==
    StoreCall("assessmentStorage.clear", Null, assessmentStorage_clear(ls), Null, m)
Call_completedTasksStorage_set(d, v, m) ==
    StoreCall("completedTasksStorage.set", Some(<<d, v>>),
              completedTasksStorage_set(ls, d, v), Null, m)
Call_completedTasksStorage_add(d, t, m) ==
    StoreCall("completedTasksStorage.add", Some(<<d, t>>),
              completedTasksStorage_add(ls, d, t), Null, m)
Call_completedTasksStorage_remove(d, t, m) ==
    StoreCall("completedTasksStorage.remove", Some(<<d, t>>),
              completedTasksStorage_remove(ls, d, t), Null, m)
Call_onboardingStorage_setComplete(m) ==
    StoreCall("onboardingStorage.setComplete", Null, onboardingStorage_setComplete(ls), Null, m)
Call_clearAllData(m) == StoreCall("clearAllData", Null, clearAllData(ls), Null, m)

NextStore ==
    \E m \in {"ok", "blocked", "absent"} :
        \/ \E key \in AllKeys : Call_getItem(key, m)
        \/ \E v \in SubjectValues : Call_subjectStorage_set(v, m)
        \/ \E v \in GeneratedPlans : Call_planStorage_set(v, m)
        \/ \E v \in MoodValues : Call_moodStorage_set(v, m)
        \/ Call_moodStorage_add(SeasonedEntry, m)
        \/ \E v \in HourValues : Call_hoursStorage_set(v, m)
        \/ \E v \in CommitmentValues : Call_commitmentsStorage_set(v, m)
        \/ \E v \in Assessments : Call_assessmentStorage_set(v, m)
        \/ Call_assessmentStorage_clear(m)
        \/ \E d \in Dates, v \in LedgerValues : Call_completedTasksStorage_set(d, v, m)
        \/ \E d \in Dates, t \in {TaskId(T1), TaskId(T2)} : Call_completedTasksStorage_add(d, t, m)
        \/ \E d \in Dates, t \in {TaskId(T1), TaskId(T2)} : Call_completedTasksStorage_remove(d, t, m)
        \/ Call_onboardingStorage_setComplete(m)
        \/ Call_clearAllData(m)

SpecStore == InitStore /\ [][NextStore]_vars

\* Every typed read gives absent or the accessor's default
ReadsDegraded(s) ==
    /\ subjectStorage_get(s) = <<>>
    /\ planStorage_get(s) = Null
    /\ moodStorage_get(s) = <<>>
    /\ hoursStorage_get(s) = DefaultHours
    /\ commitmentsStorage_get(s) = {}
    /\ assessmentStorage_get(s) = Null
    /\ \A d \in Dates : completedTasksStorage_get(s, d) = <<>>
    /\ ~onboardingStorage_isComplete(s)

\* C23: a call made while the medium is unavailable (no window, or a
\* localStorage that throws) does not raise and leaves the store as it was,
\* a read returns absent, and without a window every typed read gives absent
\* or its default.
C23_UnavailableMediumDegrades ==
    [][ev'.op = "store" /\ run'[1].req.medium # "ok"
          => /\ ~run'[1].resp.threw
             /\ ls' = ls
             /\ run'[1].at = "getItem" => run'[1].resp.ret = Null
             /\ ~hasWindow => ReadsDegraded(ls')]_vars

\* The part of C23 about the missing window alone
AbsentWindowDegrades ==
    [][ev'.op = "store" /\ run'[1].req.medium = "absent"
          => /\ ~run'[1].resp.threw
             /\ ls' = ls
             /\ run'[1].at = "getItem" => run'[1].resp.ret = Null
             /\ ReadsDegraded(ls')]_vars

\* C24: in a working browser, the get that follows a set(v) returns v, for
\* every record the store keeps.
C24_GetAfterSet ==
    [][ev'.op = "store" /\ run'[1].req.medium = "ok"
          => LET at == run'[1].at
                 arg == run'[1].req.arg
             IN  /\ at = "subjectStorage.set" => subjectStorage_get(ls') = arg[1]
                 /\ at = "planStorage.set" => planStorage_get(ls') = arg
                 /\ at = "moodStorage.set" => moodStorage_get(ls') = arg[1]
                 /\ at = "hoursStorage.set" => hoursStorage_get(ls') = arg[1]
                 /\ at = "commitmentsStorage.set" => commitmentsStorage_get(ls') = arg[1]
                 /\ at = "assessmentStorage.set" => assessmentStorage_get(ls') = arg
                 /\ at = "completedTasksStorage.set"
                       => completedTasksStorage_get(ls', arg[1][1]) = arg[1][2]
                 /\ at = "onboardingStorage.setComplete" => onboardingStorage_isComplete(ls')]_vars

\* The round trip of C24 for every record but the daily hours
GetAfterSetButHours ==
    [][ev'.op = "store" /\ run'[1].req.medium = "ok"
          => LET at == run'[1].at
                 arg == run'[1].req.arg
             IN  /\ at = "subjectStorage.set" => subjectStorage_get(ls') = arg[1]
                 /\ at = "planStorage.set" => planStorage_get(ls') = arg
                 /\ at = "moodStorage.set" => moodStorage_get(ls') = arg[1]
                 /\ at = "hoursStorage.set" /\ arg[1] # 0 => hoursStorage_get(ls') = arg[1]
                 /\ at = "commitmentsStorage.set" => commitmentsStorage_get(ls') = arg[1]
                 /\ at = "assessmentStorage.set" => assessmentStorage_get(ls') = arg
                 /\ at = "completedTasksStorage.set"
                       => completedTasksStorage_get(ls', arg[1][1]) = arg[1][2]
                 /\ at = "onboardingStorage.setComplete" => onboardingStorage_isComplete(ls')]_vars

-----------------------------------------------------------------------------
(* The mood history as a log of the check-ins, under SpecCheckin *)

\* The last k elements of seq, all of it when it is shorter
LastOf(seq, k) == IF Len(seq) <= k THEN seq ELSE SubSeq(seq, Len(seq) - k + 1, Len(seq))

\* C25: the mood history changes only when a check-in is saved; saving makes
\* it the last 7 of the old history followed by the new entry, dated today,
\* whether or not an entry of that date is already there; and the step that
\* issues the scoring call finds the entry already stored, as the last one
\* of the history it sends.
C25_MoodHistoryIsLastSeven ==
    [][/\ moodStorage_get(ls') # moodStorage_get(ls) => ev'.op = "checkin_added"
       /\ ev'.op = "checkin_added"
            => /\ moodStorage_get(ls') = LastOf(Append(moodStorage_get(ls), run'[1].req), MoodCap)
               /\ run'[1].req.date = today
               /\ Len(moodStorage_get(ls')) =
                     IF Len(moodStorage_get(ls)) < MoodCap
                     THEN Len(moodStorage_get(ls)) + 1 ELSE MoodCap
       /\ ev'.op = "checkin_called"
            => /\ moodStorage_get(ls)[Len(moodStorage_get(ls))] = run[1].req
               /\ burnoutReqs'[Len(burnoutReqs')].history = moodStorage_get(ls)
               /\ ls' = ls]_vars

\* C25 witness: the scoring call of a check-in has been issued with a full
\* history whose two newest entries have the same date and whose oldest has
\* another
C25_Witness ==
    /\ ev.op = "checkin_called"
    /\ burnoutReqs # <<>>
    /\ LET history == burnoutReqs[Len(burnoutReqs)].history
       IN  /\ history = moodStorage_get(ls)
           /\ Len(history) = MoodCap
           /\ history[MoodCap - 1].date = history[MoodCap].date
           /\ history[1].date # history[MoodCap].date

-----------------------------------------------------------------------------
(* The ledger of completed tasks: the checkboxes of the dashboard and       *)
(* completedTasksStorage.add / remove called directly, for any date         *)

LedgerIds == {TaskId(T1), TaskId(T2)}

LedgerAdd(d, t) ==
    /\ Idle
    /\ ls' = completedTasksStorage_add(ls, d, t)
    /\ ev' = Ev("ledger_add", Null)
    /\ UNCHANGED <<hasWindow, today, page, dash, chk, onb, adjustReqs, burnoutReqs, planReqs, run>>

LedgerRemove(d, t) ==
    /\ Idle
    /\ ls' = completedTasksStorage_remove(ls, d, t)
    /\ ev' = Ev("ledger_remove", Null)
    /\ UNCHANGED <<hasWindow, today, page, dash, chk, onb, adjustReqs, burnoutReqs, planReqs, run>>

NextLedger ==
    \/ Tick
    \/ \E to \in Pages : Navigate(to)
    \/ \E taskId \in LedgerIds : HandleTaskToggle(taskId)
    \/ \E d \in Dates, t \in LedgerIds : LedgerAdd(d, t)
    \/ \E d \in Dates, t \in LedgerIds : LedgerRemove(d, t)

\* From an onboarded profile whose ledger is empty
SpecLedger == InitAssessed /\ [][NextLedger]_vars

LedgerOps == {"toggle", "ledger_add", "ledger_remove"}

\* C26: no date's list of completed tasks holds an id twice; adding an id a
\* list holds and removing an id it does not hold leave the list as it is.
C26_LedgerIdempotent ==
    \A d \in Dates :
        LET list == completedTasksStorage_get(ls, d)
        IN  /\ \A i, j \in 1..Len(list) : list[i] = list[j] => i = j
            /\ \A t \in LedgerIds :
                  /\ Includes(list, t)
                        => completedTasksStorage_get(completedTasksStorage_add(ls, d, t), d) = list
                  /\ ~Includes(list, t)
                        => completedTasksStorage_get(completedTasksStorage_remove(ls, d, t), d) = list

\* C26 witness: after a ledger operation one date's list holds both ids and
\* the other date has no record
C26_Witness ==
    /\ ev.op \in LedgerOps
    /\ \E d \in Dates : Len(completedTasksStorage_get(ls, d)) = 2
    /\ \E d \in Dates : ls[CompletedKey(d)] = Null

\* C27: a toggle, add or remove step changes the item of at most one date
\* and no other item of the store; and on the store reached, add, remove and
\* the checkbox handler for a date leave every item but that date's as it is.
C27_LedgerTouchesOneDate ==
    [][ev'.op \in LedgerOps
          => /\ \A i \in 1..Len(KEYS) : ls'[KEYS[i]] = ls[KEYS[i]]
             /\ \A d1, d2 \in Dates :
                   (ls'[CompletedKey(d1)] # ls[CompletedKey(d1)]
                      /\ ls'[CompletedKey(d2)] # ls[CompletedKey(d2)]) => d1 = d2
             /\ ev'.op = "toggle" => ls'[CompletedKey(3 - today)] = ls[CompletedKey(3 - today)]
             /\ \A d \in Dates, t \in LedgerIds :
                 \A k \in AllKeys \ {CompletedKey(d)} :
                   /\ completedTasksStorage_add(ls', d, t)[k] = ls'[k]
                   /\ completedTasksStorage_remove(ls', d, t)[k] = ls'[k]
                   /\ ToggleOutcome(ls', dash'.completedTasks, d, t).ls[k] = ls'[k]]_vars

\* C27 witness: a checkbox has been clicked while the other date has a
\* record of its own and a plan and the subjects are stored
C27_Witness ==
    /\ ev.op = "toggle"
    /\ completedTasksStorage_get(ls, today) # <<>>
    /\ completedTasksStorage_get(ls, 3 - today) # <<>>
    /\ completedTasksStorage_get(ls, today) # completedTasksStorage_get(ls, 3 - today)
    /\ planStorage_get(ls) # Null
    /\ subjectStorage_get(ls) # <<>>

-----------------------------------------------------------------------------
(* Every handler of the three pages, from an onboarded profile with a       *)
(* stored assessment, on one day                                            *)

NextSession ==
    \/ \E to \in Pages : Navigate(to)
    \/ \E subjects \in FilledForms, hours \in HourForms : OnboardSubmit(subjects, hours)
    \/ \E i \in 1..MaxInFlight, plan \in {p \in GeneratedPlans : Len(p.days) = 2} :
          PlanReturn(i, plan)
    \/ OnboardComplete
    \/ \E i \in 1..MaxInFlight : PlanFail(i)
    \/ \E form \in CheckinForms : CheckinSubmit(form)
    \/ CheckinPolicy
    \/ \E i \in 1..MaxInFlight, assessment \in {a \in Assessments : a.should_adjust_plan} :
          BurnoutReturn(i, assessment)
    \/ \E i \in 1..MaxInFlight : BurnoutFail(i)
    \/ HandleAdjustPlan
    \/ \E i \in 1..MaxInFlight, adjusted \in {a \in AdjustedPlans : a.rest_days_added = 0} :
          AdjustReturn(i, adjusted)
    \/ AdjustClear
    \/ \E i \in 1..MaxInFlight : AdjustFail(i)
    \/ \E taskId \in LedgerIds : HandleTaskToggle(taskId)

SpecSession == InitAssessed /\ [][NextSession]_vars

\* C28: the item of completed tasks of a date changes only in the step of a
\* checkbox click; no step of a check-in, of an onboarding submit or of an
\* Adjust Plan, successful or failed, changes it.
C28_OnlyTogglesChangeLedger ==
    [][/\ (\E d \in Dates : ls'[CompletedKey(d)] # ls[CompletedKey(d)]) => ev'.op = "toggle"
       /\ ev'.op \in {"checkin_added", "checkin_called", "checkin_skipped", "burnout_ok",
                      "burnout_failed", "onboard_invalid", "onboard_submitted", "plan_stored",
                      "onboard_done", "plan_failed", "adjust_called", "adjust_stored",
                      "adjust_done", "adjust_failed"}
            => \A d \in Dates : completedTasksStorage_get(ls', d) = completedTasksStorage_get(ls, d)]_vars

\* C28 witness: an adjustment has been applied while a task is recorded as
\* completed
C28_Witness ==
    /\ ev.op = "adjust_done"
    /\ \E d \in Dates : completedTasksStorage_get(ls, d) # <<>>

\* C29: at any time at most one adjustPlanForBurnout call, at most one
\* checkBurnout call and at most one generatePlan call is outstanding.
C29_OneOutstandingPerKind ==
    /\ Len(adjustReqs) <= 1
    /\ Len(burnoutReqs) <= 1
    /\ Len(planReqs) <= 1

-----------------------------------------------------------------------------
(* Retrying after a remote call: the onboarding form and Adjust Plan, from  *)
(* an onboarded profile with a stored assessment, every call returning and  *)
(* every handler running on after its await                                 *)

NextRetry ==
    \/ \E to \in Pages : Navigate(to)
    \/ \E subjects \in FilledForms, hours \in HourForms : OnboardSubmit(subjects, hours)
    \/ \E i \in 1..MaxInFlight, plan \in GeneratedPlans : PlanReturn(i, plan)
    \/ OnboardComplete
    \/ \E i \in 1..MaxInFlight : PlanFail(i)
    \/ HandleAdjustPlan
    \/ \E i \in 1..MaxInFlight, adjusted \in AdjustedPlans : AdjustReturn(i, adjusted)
    \/ AdjustClear
    \/ \E i \in 1..MaxInFlight : AdjustFail(i)

\* Every pending call eventually resolves or rejects, whatever else happens
\* in between; a handler that has resumed runs to its end.
RemoteCallsReturn ==
    /\ SF_vars(\E i \in 1..MaxInFlight :
                  (\E plan \in GeneratedPlans : PlanReturn(i, plan)) \/ PlanFail(i))
    /\ SF_vars(\E i \in 1..MaxInFlight :
                  (\E adjusted \in AdjustedPlans : AdjustReturn(i, adjusted)) \/ AdjustFail(i))
    /\ WF_vars(OnboardComplete)
    /\ WF_vars(AdjustClear)

SpecRetry == InitAssessed /\ [][NextRetry]_vars /\ RemoteCallsReturn

\* The call that left the list in this step belonged to the mounted component
LiveLeft(reqs, reqsAfter) ==
    \E i \in 1..Len(reqs) : reqs[i].live /\ reqsAfter = RemoveAt(reqs, i)

\* C30: when the generatePlan call of the form shown fails, loading is false
\* again and the form is still shown; when the adjustPlanForBurnout call of
\* the dashboard shown has failed, or has succeeded and been applied,
\* adjusting is false again, and after a failure the assessment is still
\* held, so the button is enabled; and a flag that is set is eventually reset.
C30_FailedCallRetryable ==
    /\ [][/\ (ev'.op = "plan_failed" /\ LiveLeft(planReqs, planReqs'))
               => ~onb'.loading /\ page' = "onboarding"
          /\ (ev'.op = "adjust_failed" /\ LiveLeft(adjustReqs, adjustReqs'))
               => /\ ~dash'.adjusting
                  /\ page' = "dashboard"
                  /\ dash'.burnoutAssessment = dash.burnoutAssessment
                  /\ dash'.burnoutAssessment # Null
          /\ (ev'.op = "adjust_done" /\ run[1].req.live) => ~dash'.adjusting]_vars
    /\ onb.loading ~> ~onb.loading
    /\ dash.adjusting ~> ~dash.adjusting

\* C30 witness: the adjustment call of the dashboard shown has failed; the
\* button is enabled again
C30_Witness ==
    /\ ev.op = "adjust_failed"
    /\ page = "dashboard"
    /\ ~dash.adjusting
    /\ dash.burnoutAssessment # Null
    /\ adjustReqs = <<>>

-----------------------------------------------------------------------------
(* A check-in that completes while an adjustment is pending.  The user      *)
(* stays on the check-in page until the scoring call has returned, so every *)
(* assessment stored is shown by the dashboard mounted next: an assessment  *)
(* in the store that differs from the one an adjustment was asked for was   *)
(* written after the request was issued.                                    *)

NextOverlap ==
    \/ \E to \in Pages : Navigate(to)
    \/ \E form \in CheckinForms : CheckinSubmit(form)
    \/ CheckinPolicy
    \/ page = "checkin" /\ \E i \in 1..MaxInFlight, assessment \in Assessments :
                              BurnoutReturn(i, assessment)
    \/ page = "checkin" /\ \E i \in 1..MaxInFlight : BurnoutFail(i)
    \/ HandleAdjustPlan
    \/ \E i \in 1..MaxInFlight, adjusted \in AdjustedPlans : AdjustReturn(i, adjusted)
    \/ AdjustClear
    \/ \E i \in 1..MaxInFlight : AdjustFail(i)

SpecOverlap == InitAssessed /\ [][NextOverlap]_vars

\* When Adjust Plan is clicked the store holds the assessment shown or none
IssuedFromStored ==
    [][ev'.op = "adjust_called"
          => assessmentStorage_get(ls) \in {Null, dash.burnoutAssessment}]_vars

\* C31: when an adjustment is applied while the store holds an assessment
\* other than the one the adjustment was asked for (its risk_level is not
\* the burnout_level sent with the request), that assessment stays stored.
C31_NewerAssessmentKept ==
    [][(/\ ev'.op = "adjust_done"
        /\ assessmentStorage_get(ls) # Null
        /\ assessmentStorage_get(ls)[1].risk_level # run[1].req.burnoutLevel)
          => assessmentStorage_get(ls') = assessmentStorage_get(ls)]_vars

-----------------------------------------------------------------------------
(* The day an adjustment is asked for, under SpecAdjustOnce *)

\* The request an Adjust Plan click has just issued
Issued == adjustReqs'[Len(adjustReqs')]

\* The day handed over is a day of the plan handed over, which has days
AdjustedDayIsOfPlan ==
    [][ev'.op = "adjust_called"
          => /\ Len(Issued.plan.days) > 0
             /\ \E i \in 1..Len(Issued.plan.days) : Issued.plan.days[i] = Issued.todaysPlan]_vars

\* C32: the request of an Adjust Plan click carries a plan that has days and
\* a day of that plan: the day dated today when the plan has one, the first
\* day otherwise.
C32_AdjustedDayIsTodays ==
    [][ev'.op = "adjust_called"
          => /\ Len(Issued.plan.days) > 0
             /\ \E i \in 1..Len(Issued.plan.days) : Issued.plan.days[i] = Issued.todaysPlan
             /\ Some(Issued.todaysPlan) =
                   IF FindDay(Issued.plan.days, today) # Null
                   THEN FindDay(Issued.plan.days, today)
                   ELSE Some(Issued.plan.days[1])]_vars

-----------------------------------------------------------------------------
(* Task hours after an adjustment has taken tasks out of the plan, under    *)
(* SpecSession                                                              *)

\* The sum of duration_hours over every task of the plan
PlanDurations(plan) == Reduce([i \in 1..Len(plan.days) |-> SumDurations(plan.days[i].tasks)])

\* The store s with every id taken out of the completed-task list of a day
\* of the plan that is the id of no task of that day
Pruned(plan, s) ==
    [k \in AllKeys |->
        IF s[k] # Null /\ \E i \in 1..Len(plan.days) : k = CompletedKey(plan.days[i].date)
        THEN LET day == plan.days[CHOOSE i \in 1..Len(plan.days) : k = CompletedKey(plan.days[i].date)]
             IN  Some(JSONStringify(SelectSeq(JSONParse(s[k][1]),
                        LAMBDA id : \E j \in 1..Len(day.tasks) : TaskId(day.tasks[j]) = id)))
        ELSE s[k]]

\* C33: for the plan the dashboard holds, taskHours is at most the sum of the
\* durations of the plan's tasks and is what it would be without the ledger
\* ids that match no task of their day; and the steps of an adjustment leave
\* every date's completed-task item as it was.
C33_TaskHoursWithinPlan ==
    [][/\ (page' = "dashboard" /\ dash'.plan # Null)
            => /\ TaskCompletionHours(dash'.plan[1], ls') <= PlanDurations(dash'.plan[1])
               /\ TaskCompletionHours(dash'.plan[1], ls')
                     = TaskCompletionHours(dash'.plan[1], Pruned(dash'.plan[1], ls'))
       /\ ev'.op \in {"adjust_called", "adjust_stored", "adjust_done", "adjust_failed"}
            => \A d \in Dates : ls'[CompletedKey(d)] = ls[CompletedKey(d)]]_vars

\* C33 witness: an adjustment has left T2 as the only task of day 1; T1 and
\* T2 are both recorded as completed on day 1, and taskHours is T2's hours
C33_Witness ==
    /\ ev.op = "adjust_done"
    /\ Rendered
    /\ dash.plan[1].days[1].date = 1
    /\ dash.plan[1].days[1].tasks = <<T2>>
    /\ Includes(completedTasksStorage_get(ls, 1), TaskId(T1))
    /\ Includes(completedTasksStorage_get(ls, 1), TaskId(T2))
    /\ planStorage_get(ls) = dash.plan
    /\ TaskCompletionHours(dash.plan[1], ls) = T2.duration_hours

-----------------------------------------------------------------------------
(* Every handler of the three pages together with the reset.  The scoring  *)
(* and adjustment calls return successfully here: their failure paths write *)
(* nothing to the store.                                                    *)

NextWhole ==
    \/ \E to \in Pages : Navigate(to)
    \/ \E subjects \in FilledForms, hours \in HourForms : OnboardSubmit(subjects, hours)
    \/ \E i \in 1..MaxInFlight, plan \in {p \in GeneratedPlans : Len(p.days) = 2} :
          PlanReturn(i, plan)
    \/ OnboardComplete
    \/ \E i \in 1..MaxInFlight : PlanFail(i)
    \/ \E form \in CheckinForms : CheckinSubmit(form)
    \/ CheckinPolicy
    \/ \E i \in 1..MaxInFlight, assessment \in {a \in Assessments : a.should_adjust_plan} :
          BurnoutReturn(i, assessment)
    \/ HandleAdjustPlan
    \/ \E i \in 1..MaxInFlight,
          adjusted \in {a \in AdjustedPlans : a.rest_days_added = 0 /\ a.modified_tasks # <<>>} :
          AdjustReturn(i, adjusted)
    \/ AdjustClear
    \/ HandleTaskToggle(TaskId(T1))
    \/ HandleReset

SpecWhole == InitAssessed /\ [][NextWhole]_vars

\* C34: whenever the onboarding flag is stored, a weekly plan is stored.
C34_OnboardedHasPlan ==
    onboardingStorage_isComplete(ls) => planStorage_get(ls) # Null

\* C34 witness: after a reset the profile has been onboarded again: the mood
\* history the profile started with is gone, flag and plan are stored
C34_Witness ==
    /\ ev.op = "onboard_done"
    /\ onboardingStorage_isComplete(ls)
    /\ planStorage_get(ls) # Null
    /\ moodStorage_get(ls) = <<>>

====
